---- MODULE Spec2Model ----
(***************************************************************************)
(* A model of the AmaCoach storage engine (src/database.py) and of the     *)
(* dispatch layer in front of it (src/server.py).                          *)
(*                                                                         *)
(* The specifications share the tables:                                    *)
(*   Spec         every call runs to completion before the next one starts;*)
(*   SpecUsers    the users table alone;                                   *)
(*   SpecCatalog  the exercise catalog: create_exercise and list_exercises;*)
(*   SpecLoad     plans of varying created_date, loaded one by one or as   *)
(*                the list of active plans;                                *)
(*   SpecConc     several callers run against the one database file, their *)
(*                SQL statements interleaved; SQLite's single write lock   *)
(*                and its commit/rollback are modelled explicitly;         *)
(*   SpecProv     concurrent tool calls that provision their caller;       *)
(*   SpecRoundTrip plans saved and loaded again, line by line;             *)
(*   SpecLife     the calls that write workout_plans;                      *)
(*   SpecRecords  personal records, saved and loaded;                      *)
(*   SpecTools    handle_call_tool for every tool name;                    *)
(*   SpecRot      a two-step rotation while plans are being saved.         *)
(***************************************************************************)
EXTENDS Integers, Sequences, FiniteSets, TLC

VARIABLES
    users,              \* table users: user_id -> row
    exercises,          \* table exercises: sequence of rows, exercise_id = index
    workout_plans,      \* table workout_plans: sequence of rows, plan_id = index
    planned_exercises,  \* table planned_exercises: set of rows
    personal_records,   \* table personal_records: sequence of rows, record_id = index
    last,               \* the call that completed last, with its outcome (Spec)
    pc,                 \* SpecConc: position of every caller in its call
    conn,               \* SpecConc: per caller, the uncommitted state of its connection
    local,              \* SpecConc: per caller, the Python locals of its call
    wlock               \* SpecConc: the caller holding SQLite's write lock, or NoProc

tables == <<users, exercises, workout_plans, planned_exercises>>
procs  == <<pc, conn, local, wlock>>
vars   == <<users, exercises, workout_plans, planned_exercises, personal_records,
            last, pc, conn, local, wlock>>

----------------------------------------------------------------------------
(* Bounds of the model and the inputs the calls are drawn from.            *)

MaxPlans == 4     \* rows of workout_plans the model lets exist
MaxCycle == 2     \* highest current_cycle_number the model lets a user reach

UserIds          == {"u1", "u2"}
UserNames        == {"Ann", "Bob"}
PlanNames        == {"A", "B"}
ExerciseNames    == {"Push-ups"}
ExerciseCreators == {"u1"}
Difficulties     == {0, 2}
Times            == {"t1"}                \* values datetime.now() may return
PlanDates        == {1}                   \* created_date of the plans of Spec and SpecConc
NULL             == "NULL"

\* muscle groups and equipment, as texts
Chest      == <<"c", "h", "e", "s", "t">>
ChestUpper == <<"C", "h", "e", "s", "t">>
Back       == <<"b", "a", "c", "k">>
Epaules    == <<"é", "p", "a", "u", "l", "e", "s">>
Dumbbells  == <<"d", "u", "m", "b", "b", "e", "l", "l", "s">>
Bodyweight == <<"b", "o", "d", "y", "w", "e", "i", "g", "h", "t">>

\* the lists of strings create_exercise is given as muscle_groups or equipment_needed
TextLists == { <<>>, <<Chest>>, <<Back, Epaules>>, <<Dumbbells>>, <<Bodyweight>> }

\* the exercises SpecCatalog creates: A chest/dumbbells, B chest/bodyweight,
\* C back and épaules/dumbbells
CatalogEntries ==
    { [name |-> <<"A">>, muscle_groups |-> <<Chest>>,         equipment_needed |-> <<Dumbbells>>],
      [name |-> <<"B">>, muscle_groups |-> <<Chest>>,         equipment_needed |-> <<Bodyweight>>],
      [name |-> <<"C">>, muscle_groups |-> <<Back, Epaules>>, equipment_needed |-> <<Dumbbells>>] }

\* the difficulty levels SpecCatalog passes: the two bounds of the range and
\* their outer neighbours; u1 creates at the low ones, u2 at the high ones
LowDifficulties  == {0, 1}
HighDifficulties == {5, 6}

\* the filters list_exercises is called with; <<>> and 0 are what Python takes
\* for "not given" (None, "" and 0 are all falsy)
MuscleGroupFilters == { <<>>, Chest, ChestUpper, Epaules }
EquipmentFilters   == { <<>>, Dumbbells }
DifficultyFilters  == { 0, 5 }

\* the (user_id, plan_name) pairs plans are saved for: u1 is the user under
\* study, u2 a second user with one plan name
SaveInputs == { <<u, n>> \in UserIds \X PlanNames : u = "u2" => n = "A" }

\* the users whose cycle Spec advances (SpecUsers advances every user's)
RotatingUsers == {"u1"}

\* an exercise_id that no row of exercises carries (test_database.py uses 999999)
MissingExerciseId == 999999

\* the cap the trigger enforce_max_active_plans compares against
MaxActivePlans == 3

Line(e) == [exercise_id |-> e, sets |-> 3, reps |-> 10]

\* the exercises_list arguments of save_workout_plan: one that references only
\* exercise 1, and two with an exercise_id that does not exist, second and first
ExerciseLists ==
    { <<Line(1), Line(1)>>,
      <<Line(1), Line(MissingExerciseId)>>,
      <<Line(MissingExerciseId), Line(1)>> }

\* the exercises_list arguments of the save_workout_plan tool
ToolExerciseLists ==
    { <<Line(1), Line(1)>>,
      <<Line(MissingExerciseId), Line(1)>> }

----------------------------------------------------------------------------
(* Values shared by the operators below.                                   *)

NoExc  == "none"
NoRet  == <<>>
NoProc == "none"

DB(u, e, w, p) == [users |-> u, exercises |-> e, workout_plans |-> w, planned_exercises |-> p]

CurrentDB == DB(users, exercises, workout_plans, planned_exercises)

\* str(e) of an exception is modelled as the sequence of its fragments;
\* Python's  s in str(e)  is membership of the fragment.
Contains(msg, fragment) == \E i \in 1..Len(msg) : msg[i] = fragment

Outcome(db, exc, msg, ret) == [db |-> db, exc |-> exc, msg |-> msg, ret |-> ret]

----------------------------------------------------------------------------
(* Text whose characters matter (exercise names of the catalog, muscle     *)
(* groups, equipment) is a sequence of characters.                         *)

LowerCase == <<"a", "b", "c", "d", "e", "f", "g", "h", "i", "j", "k", "l", "m",
               "n", "o", "p", "q", "r", "s", "t", "u", "v", "w", "x", "y", "z">>
UpperCase == <<"A", "B", "C", "D", "E", "F", "G", "H", "I", "J", "K", "L", "M",
               "N", "O", "P", "Q", "R", "S", "T", "U", "V", "W", "X", "Y", "Z">>

\* the ASCII case folding SQLite's LIKE applies to both operands
Lower(c) ==
    IF \E i \in 1..26 : UpperCase[i] = c
    THEN LowerCase[CHOOSE i \in 1..26 : UpperCase[i] = c]
    ELSE c

Digits == <<"0", "1", "2", "3", "4", "5", "6", "7", "8", "9">>

\* the code point of a letter, a digit or one of + - : (the BINARY collation of
\* ORDER BY compares these)
CodePoint(c) ==
    IF c = "+" THEN 43
    ELSE IF c = "-" THEN 45
    ELSE IF c = ":" THEN 58
    ELSE IF \E i \in 1..10 : Digits[i] = c
    THEN 47 + (CHOOSE i \in 1..10 : Digits[i] = c)
    ELSE IF \E i \in 1..26 : UpperCase[i] = c
    THEN 64 + (CHOOSE i \in 1..26 : UpperCase[i] = c)
    ELSE 96 + (CHOOSE i \in 1..26 : LowerCase[i] = c)

\* a < b for two texts, as memcmp orders them
RECURSIVE TextLess(_, _)
TextLess(a, b) ==
    IF b = <<>> THEN FALSE
    ELSE IF a = <<>> THEN TRUE
    ELSE IF Head(a) = Head(b) THEN TextLess(Tail(a), Tail(b))
    ELSE CodePoint(Head(a)) < CodePoint(Head(b))

\* json.dumps of one character of a string (ensure_ascii is on by default)
JsonEscape(c) ==
    IF c = "\"" THEN <<"\\", "\"">>
    ELSE IF c = "\\" THEN <<"\\", "\\">>
    ELSE IF c = "é" THEN <<"\\", "u", "0", "0", "e", "9">>
    ELSE <<c>>

RECURSIVE JsonString(_)
JsonString(text) ==
    IF text = <<>> THEN <<>> ELSE JsonEscape(Head(text)) \o JsonString(Tail(text))

RECURSIVE JsonItems(_)
JsonItems(list) ==
    IF list = <<>> THEN <<>>
    ELSE <<"\"">> \o JsonString(Head(list)) \o <<"\"">>
         \o (IF Len(list) > 1 THEN <<",", " ">> ELSE <<>>) \o JsonItems(Tail(list))

\* models.serialize_json_field: json.dumps of a list of strings
serialize_json_field(list) == <<"[">> \o JsonItems(list) \o <<"]">>

\* the JSON text of each list of TextLists
JsonOfTextList == [list \in TextLists |-> serialize_json_field(list)]

\* SQLite's  text LIKE pattern :  % matches any run of characters, _ any one
\* character, every other character itself up to ASCII case
RECURSIVE Like(_, _)
Like(pattern, text) ==
    IF pattern = <<>> THEN text = <<>>
    ELSE IF Head(pattern) = "%"
    THEN Like(Tail(pattern), text) \/ (text # <<>> /\ Like(pattern, Tail(text)))
    ELSE /\ text # <<>>
         /\ (Head(pattern) = "_" \/ Lower(Head(pattern)) = Lower(Head(text)))
         /\ Like(Tail(pattern), Tail(text))

----------------------------------------------------------------------------
(* The schema: what each INSERT / UPDATE / SELECT statement does to the    *)
(* tables, constraints and trigger included.  A statement that violates a  *)
(* constraint raises sqlite3.IntegrityError and changes nothing.           *)

IntegrityError == "IntegrityError"
ValueError     == "ValueError"
DatabaseError  == "DatabaseError"
TypeError      == "TypeError"
KeyError       == "KeyError"
UserPermissionError == "UserPermissionError"

TriggerMsg  == <<"User ", "cannot have more than 3 active workout plans">>
UniqueMsg   == <<"UNIQUE constraint failed">>
ForeignMsg  == <<"FOREIGN KEY constraint failed">>
CapMsg      == <<"User already has 3 active workout plans.", " Cannot create more.">>

ActivePlanIds(plans, user_id) ==
    { i \in 1..Len(plans) : plans[i].user_id = user_id /\ plans[i].is_active }

\* SELECT COUNT(*) FROM workout_plans WHERE user_id = ? AND is_active = 1
get_active_plan_count(db, user_id) == Cardinality(ActivePlanIds(db.workout_plans, user_id))

\* trigger enforce_max_active_plans BEFORE INSERT ON workout_plans: TRUE when it raises ABORT
enforce_max_active_plans_off(plans, new) == FALSE

enforce_max_active_plans_gt(plans, new) ==
    /\ new.is_active
    /\ Cardinality(ActivePlanIds(plans, new.user_id)) > MaxActivePlans

enforce_max_active_plans(plans, new) ==
    /\ new.is_active
    /\ Cardinality(ActivePlanIds(plans, new.user_id)) >= MaxActivePlans

\* INSERT INTO workout_plans: the BEFORE INSERT trigger runs first, then the
\* UNIQUE(user_id, plan_name, cycle_number) check, then the foreign key on users.
InsertWorkoutPlan_unique_first(db, new) ==
    IF \E i \in 1..Len(db.workout_plans) :
                /\ db.workout_plans[i].user_id = new.user_id
                /\ db.workout_plans[i].plan_name = new.plan_name
                /\ db.workout_plans[i].cycle_number = new.cycle_number
    THEN Outcome(db, IntegrityError, UniqueMsg, NoRet)
    ELSE IF enforce_max_active_plans(db.workout_plans, new)
    THEN Outcome(db, IntegrityError, TriggerMsg, NoRet)
    ELSE IF new.user_id \notin DOMAIN db.users
    THEN Outcome(db, IntegrityError, ForeignMsg, NoRet)
    ELSE Outcome([db EXCEPT !.workout_plans = Append(@, new)], NoExc, <<>>,
                 <<Len(db.workout_plans) + 1>>)

InsertWorkoutPlan_unique_among_active(db, new) ==
    IF enforce_max_active_plans(db.workout_plans, new)
    THEN Outcome(db, IntegrityError, TriggerMsg, NoRet)
    ELSE IF \E i \in 1..Len(db.workout_plans) :
                /\ db.workout_plans[i].user_id = new.user_id
                /\ db.workout_plans[i].plan_name = new.plan_name
                /\ db.workout_plans[i].cycle_number = new.cycle_number
                /\ db.workout_plans[i].is_active
    THEN Outcome(db, IntegrityError, UniqueMsg, NoRet)
    ELSE IF new.user_id \notin DOMAIN db.users
    THEN Outcome(db, IntegrityError, ForeignMsg, NoRet)
    ELSE Outcome([db EXCEPT !.workout_plans = Append(@, new)], NoExc, <<>>,
                 <<Len(db.workout_plans) + 1>>)

InsertWorkoutPlan(db, new) ==
    IF enforce_max_active_plans(db.workout_plans, new)
    THEN Outcome(db, IntegrityError, TriggerMsg, NoRet)
    ELSE IF \E i \in 1..Len(db.workout_plans) :
                /\ db.workout_plans[i].user_id = new.user_id
                /\ db.workout_plans[i].plan_name = new.plan_name
                /\ db.workout_plans[i].cycle_number = new.cycle_number
    THEN Outcome(db, IntegrityError, UniqueMsg, NoRet)
    ELSE IF new.user_id \notin DOMAIN db.users
    THEN Outcome(db, IntegrityError, ForeignMsg, NoRet)
    ELSE Outcome([db EXCEPT !.workout_plans = Append(@, new)], NoExc, <<>>,
                 <<Len(db.workout_plans) + 1>>)      \* cursor.lastrowid

\* INSERT INTO planned_exercises: UNIQUE(plan_id, order_in_plan) and the two foreign keys
InsertPlannedExercise(db, new) ==
    IF \E r \in db.planned_exercises :
            r.plan_id = new.plan_id /\ r.order_in_plan = new.order_in_plan
    THEN Outcome(db, IntegrityError, UniqueMsg, NoRet)
    ELSE IF \/ new.plan_id \notin 1..Len(db.workout_plans)
            \/ new.exercise_id \notin 1..Len(db.exercises)
    THEN Outcome(db, IntegrityError, ForeignMsg, NoRet)
    ELSE Outcome([db EXCEPT !.planned_exercises = @ \cup {new}], NoExc, <<>>, NoRet)

PlannedRow(plan_id, exercise_data, order) ==
    [plan_id       |-> plan_id,
     exercise_id   |-> exercise_data.exercise_id,
     sets          |-> exercise_data.sets,
     reps          |-> exercise_data.reps,
     order_in_plan |-> order]

\* Database.get_cursor: commit when the body ends normally, otherwise roll the
\* connection back to the committed tables and re-raise as DatabaseError.
get_cursor_no_rollback(committed, body) ==
    IF body.exc = NoExc
    THEN body
    ELSE Outcome(body.db, DatabaseError, <<"Database operation failed: ">> \o body.msg, NoRet)

get_cursor(committed, body) ==
    IF body.exc = NoExc
    THEN body
    ELSE Outcome(committed, DatabaseError, <<"Database operation failed: ">> \o body.msg, NoRet)

----------------------------------------------------------------------------
(* Database methods, each as a function of the committed tables.           *)

UserRecord(db, user_id) ==
    [user_id              |-> user_id,
     name                 |-> db.users[user_id].name,
     rotation_weeks       |-> db.users[user_id].rotation_weeks,
     last_rotation_date   |-> db.users[user_id].last_rotation_date,
     current_cycle_number |-> db.users[user_id].current_cycle_number]

\* Database.get_user: <<User>> or <<>> for None
get_user(db, user_id) ==
    IF user_id \in DOMAIN db.users THEN <<UserRecord(db, user_id)>> ELSE NoRet

NewUserRow(name) ==
    [name |-> name, rotation_weeks |-> 6, last_rotation_date |-> NULL, current_cycle_number |-> 1]

\* Database.create_user
create_user_replace(db, user_id, name) ==
    LET db2 == [db EXCEPT !.users =
                   [u \in DOMAIN db.users \cup {user_id} |->
                       IF u = user_id THEN NewUserRow(name) ELSE db.users[u]]]
    IN  get_cursor(db, Outcome(db2, NoExc, <<>>, <<UserRecord(db2, user_id)>>))

create_user(db, user_id, name) ==
    get_cursor(db,
        IF user_id \in DOMAIN db.users
        THEN LET existing_user == get_user(db, user_id) IN
             IF existing_user = NoRet
             THEN Outcome(db, DatabaseError, <<"exists in database but could not be retrieved">>, NoRet)
             ELSE Outcome(db, NoExc, <<>>, existing_user)
        ELSE LET db2 == [db EXCEPT !.users =
                           [u \in DOMAIN db.users \cup {user_id} |->
                               IF u = user_id THEN NewUserRow(name) ELSE db.users[u]]]
             IN  Outcome(db2, NoExc, <<>>, <<UserRecord(db2, user_id)>>))

\* Database.update_user_rotation: an UPDATE ... WHERE user_id = ?, no row count is read
update_user_rotation_restamp(db, user_id, now) ==
    get_cursor(db,
        Outcome([db EXCEPT !.users =
                    [u \in DOMAIN db.users |->
                        IF u = user_id
                        THEN [db.users[u] EXCEPT !.last_rotation_date = now,
                                                 !.current_cycle_number = @ + 1]
                        ELSE db.users[u]],
                          !.workout_plans =
                    [i \in 1..Len(db.workout_plans) |->
                        IF db.workout_plans[i].user_id = user_id /\ db.workout_plans[i].is_active
                        THEN [db.workout_plans[i] EXCEPT !.cycle_number = @ + 1]
                        ELSE db.workout_plans[i]]],
                NoExc, <<>>, NoRet))

update_user_rotation_every_user(db, user_id, now) ==
    get_cursor(db,
        Outcome([db EXCEPT !.users =
                    [u \in DOMAIN db.users |->
                        [db.users[u] EXCEPT !.last_rotation_date = now,
                                            !.current_cycle_number = @ + 1]]],
                NoExc, <<>>, NoRet))

update_user_rotation(db, user_id, now) ==
    get_cursor(db,
        Outcome([db EXCEPT !.users =
                    [u \in DOMAIN db.users |->
                        IF u = user_id
                        THEN [db.users[u] EXCEPT !.last_rotation_date = now,
                                                 !.current_cycle_number = @ + 1]
                        ELSE db.users[u]]],
                NoExc, <<>>, NoRet))

\* Database.deactivate_user_plans
deactivate_user_plans_every_user(db, user_id) ==
    get_cursor(db,
        Outcome([db EXCEPT !.workout_plans =
                    [i \in 1..Len(db.workout_plans) |->
                        [db.workout_plans[i] EXCEPT !.is_active = FALSE]]],
                NoExc, <<>>, NoRet))

deactivate_user_plans_toggle(db, user_id) ==
    get_cursor(db,
        Outcome([db EXCEPT !.workout_plans =
                    [i \in 1..Len(db.workout_plans) |->
                        IF db.workout_plans[i].user_id = user_id
                        THEN [db.workout_plans[i] EXCEPT !.is_active = ~ @]
                        ELSE db.workout_plans[i]]],
                NoExc, <<>>, NoRet))

deactivate_user_plans(db, user_id) ==
    get_cursor(db,
        Outcome([db EXCEPT !.workout_plans =
                    [i \in 1..Len(db.workout_plans) |->
                        IF db.workout_plans[i].user_id = user_id /\ db.workout_plans[i].is_active
                        THEN [db.workout_plans[i] EXCEPT !.is_active = FALSE]
                        ELSE db.workout_plans[i]]],
                NoExc, <<>>, NoRet))

\* models.validate_difficulty_level
validate_difficulty_level_lenient(difficulty) == 0 <= difficulty /\ difficulty <= 5

validate_difficulty_level(difficulty) == 1 <= difficulty /\ difficulty <= 5

\* a row of exercises: the two lists are stored as JSON text
ExerciseRow(name, muscle_groups, equipment_needed, difficulty_level, created_by_user_id) ==
    [name               |-> name,
     muscle_groups      |-> serialize_json_field(muscle_groups),
     equipment_needed   |-> serialize_json_field(equipment_needed),
     difficulty_level   |-> difficulty_level,
     created_by_user_id |-> created_by_user_id]

\* INSERT INTO exercises: the CHECK on difficulty_level, then UNIQUE(name), then
\* the foreign key on users
InsertExercise_no_unique(db, new) ==
    IF ~ (new.difficulty_level >= 1 /\ new.difficulty_level <= 5)
    THEN Outcome(db, IntegrityError, <<"CHECK constraint failed">>, NoRet)
    ELSE IF new.created_by_user_id \notin DOMAIN db.users
    THEN Outcome(db, IntegrityError, ForeignMsg, NoRet)
    ELSE Outcome([db EXCEPT !.exercises = Append(@, new)], NoExc, <<>>,
                 <<Len(db.exercises) + 1>>)

InsertExercise(db, new) ==
    IF ~ (new.difficulty_level >= 1 /\ new.difficulty_level <= 5)
    THEN Outcome(db, IntegrityError, <<"CHECK constraint failed">>, NoRet)
    ELSE IF \E i \in 1..Len(db.exercises) : db.exercises[i].name = new.name
    THEN Outcome(db, IntegrityError, UniqueMsg \o <<": exercises.name">>, NoRet)
    ELSE IF new.created_by_user_id \notin DOMAIN db.users
    THEN Outcome(db, IntegrityError, ForeignMsg, NoRet)
    ELSE Outcome([db EXCEPT !.exercises = Append(@, new)], NoExc, <<>>,
                 <<Len(db.exercises) + 1>>)      \* cursor.lastrowid

\* the Exercise object built from its fields
Exercise(exercise_id, name, muscle_groups, equipment_needed, difficulty_level, created_by) ==
    [exercise_id        |-> exercise_id,
     name               |-> name,
     muscle_groups      |-> muscle_groups,
     equipment_needed   |-> equipment_needed,
     difficulty_level   |-> difficulty_level,
     created_by_user_id |-> created_by]

\* Database.create_exercise
create_exercise(db, name, muscle_groups, equipment_needed, difficulty_level, created_by) ==
    IF ~ validate_difficulty_level(difficulty_level)
    THEN Outcome(db, ValueError, <<"Difficulty level must be ", "between 1 and 5">>, NoRet)
    ELSE get_cursor(db,
        LET ins == InsertExercise(db, ExerciseRow(name, muscle_groups, equipment_needed,
                                                  difficulty_level, created_by))
        IN  IF ins.exc # NoExc THEN ins
            ELSE Outcome(ins.db, NoExc, <<>>,
                         <<Exercise(ins.ret[1], name, muscle_groups, equipment_needed,
                                    difficulty_level, created_by)>>))

\* models.deserialize_json_field: json.loads, the list whose JSON text this is
deserialize_json_field(json_str) ==
    CHOOSE list \in TextLists : JsonOfTextList[list] = json_str

\* the Exercise object built from row exercise_id of exercises
ExerciseOfRow(db, exercise_id) ==
    LET row == db.exercises[exercise_id]
    IN  Exercise(exercise_id, row.name,
                 deserialize_json_field(row.muscle_groups),
                 deserialize_json_field(row.equipment_needed),
                 row.difficulty_level, row.created_by_user_id)

\* Database.get_exercise_by_id
get_exercise_by_id(db, exercise_id) ==
    IF exercise_id \in 1..Len(db.exercises)
    THEN <<ExerciseOfRow(db, exercise_id)>>
    ELSE NoRet

\* ORDER BY name over a set of exercise ids
OrderedByName(db, ids) ==
    CHOOSE s \in [1..Cardinality(ids) -> ids] :
        /\ \A i, j \in 1..Cardinality(ids) :
              i < j => TextLess(db.exercises[s[i]].name, db.exercises[s[j]].name)
        /\ \A x \in ids : \E i \in 1..Cardinality(ids) : s[i] = x

\* the pattern list_exercises builds:  f'%"{value}"%'
QuotedPattern(value) == <<"%", "\"">> \o value \o <<"\"", "%">>

\* Database.list_exercises; a filter that is falsy adds no condition
list_exercises(db, muscle_group, equipment, difficulty) ==
    LET ids == { i \in 1..Len(db.exercises) :
                   /\ muscle_group # <<>> =>
                         Like(QuotedPattern(muscle_group), db.exercises[i].muscle_groups)
                   /\ equipment # <<>> =>
                         Like(QuotedPattern(equipment), db.exercises[i].equipment_needed)
                   /\ difficulty # 0 => db.exercises[i].difficulty_level = difficulty }
        rows == OrderedByName(db, ids)
    IN  [i \in 1..Len(rows) |-> ExerciseOfRow(db, rows[i])]

----------------------------------------------------------------------------
(* Database.save_workout_plan and Database.load_workout_plan.              *)

PlanRow(user_id, plan_name, cycle_number, created_date) ==
    [user_id |-> user_id, plan_name |-> plan_name, cycle_number |-> cycle_number,
     is_active |-> TRUE, created_date |-> created_date]

\* the for-loop over enumerate(exercises_list, 1), from position order on;
\* it stops at the first statement that raises
RECURSIVE InsertLines(_, _, _, _)
InsertLines(db, plan_id, exercises_list, order) ==
    IF order > Len(exercises_list)
    THEN Outcome(db, NoExc, <<>>, NoRet)
    ELSE LET r == InsertPlannedExercise(db, PlannedRow(plan_id, exercises_list[order], order))
         IN  IF r.exc # NoExc THEN r
             ELSE InsertLines(r.db, plan_id, exercises_list, order + 1)

\* the  except sqlite3.IntegrityError  clause of save_workout_plan
SaveIntegrityHandler(r) ==
    IF Contains(r.msg, "cannot have more than 3 active workout plans")
    THEN Outcome(r.db, ValueError, CapMsg, NoRet)
    ELSE Outcome(r.db, DatabaseError, <<"Failed to save workout plan: ">> \o r.msg, NoRet)

\* the body of save_workout_plan inside  with self.get_cursor():  user is what
\* self.get_user returned (read over a connection of its own), now what
\* datetime.now() returned
SaveBody(db, user, user_id, plan_name, exercises_list, now) ==
    IF user = NoRet
    THEN Outcome(db, ValueError, <<"User ", user_id, " not found">>, NoRet)
    ELSE LET cycle == user[1].current_cycle_number
             ins   == InsertWorkoutPlan(db, PlanRow(user_id, plan_name, cycle, now))
         IN  IF ins.exc # NoExc THEN SaveIntegrityHandler(ins)
             ELSE LET plan_id == ins.ret[1]
                      items   == InsertLines(ins.db, plan_id, exercises_list, 1)
                  IN  IF items.exc # NoExc THEN SaveIntegrityHandler(items)
                      ELSE Outcome(items.db, NoExc, <<>>,
                                   <<[plan_id |-> plan_id]
                                     @@ PlanRow(user_id, plan_name, cycle, now)>>)

\* Database.save_workout_plan, no other caller running
save_workout_plan(db, user_id, plan_name, exercises_list, now) ==
    get_cursor(db, SaveBody(db, get_user(db, user_id), user_id, plan_name, exercises_list, now))

PlannedOf(db, plan_id) ==
    { r \in db.planned_exercises : r.plan_id = plan_id /\ r.exercise_id \in 1..Len(db.exercises) }

\* ORDER BY pe.order_in_plan DESC, which the query does not say
OrderedByOrderInPlan_descending(rows) ==
    CHOOSE s \in [1..Cardinality(rows) -> rows] :
        /\ \A i, j \in 1..Cardinality(rows) : i < j => s[i].order_in_plan >= s[j].order_in_plan
        /\ \A r \in rows : \E i \in 1..Cardinality(rows) : s[i] = r

\* ORDER BY pe.order_in_plan over a set of rows
OrderedByOrderInPlan(rows) ==
    CHOOSE s \in [1..Cardinality(rows) -> rows] :
        /\ \A i, j \in 1..Cardinality(rows) : i < j => s[i].order_in_plan <= s[j].order_in_plan
        /\ \A r \in rows : \E i \in 1..Cardinality(rows) : s[i] = r

EnrichedLine(db, r) == [name |-> db.exercises[r.exercise_id].name] @@ r

\* Database.load_workout_plan with a plan_id: <<view>> or <<>> for None.
\* plan_row is the result of the first SELECT, lines the result of the second.
LoadPlanRow(db, user_id, plan_id) ==
    IF plan_id \in 1..Len(db.workout_plans) /\ db.workout_plans[plan_id].user_id = user_id
    THEN <<[plan_id |-> plan_id] @@ db.workout_plans[plan_id]>>
    ELSE NoRet

LoadPlanLines(db, plan_id) ==
    LET rows == OrderedByOrderInPlan(PlannedOf(db, plan_id))
    IN  [i \in 1..Len(rows) |-> EnrichedLine(db, rows[i])]

load_workout_plan(db, user_id, plan_id) ==
    LET plan_row == LoadPlanRow(db, user_id, plan_id)
    IN  IF plan_row = NoRet THEN NoRet
        ELSE <<[plan |-> plan_row[1], exercises |-> LoadPlanLines(db, plan_id)]>>

\* the plan_id argument: the integer passed, or None when it is left out
PlanIdOmitted == [given |-> FALSE, plan_id |-> 0]

PlanIdGiven(plan_id) == [given |-> TRUE, plan_id |-> plan_id]

\* Python's  if plan_id:  None and 0 are both falsy
PlanIdTruthy(arg) == arg.given /\ arg.plan_id # 0

\* SELECT * FROM workout_plans WHERE user_id = ? AND is_active = 1 ORDER BY
\* created_date DESC: the orders the rows may come in, rows of one created_date
\* in any order
ActivePlansByDate_ascending(db, user_id) ==
    LET ids == ActivePlanIds(db.workout_plans, user_id)
    IN  { s \in [1..Cardinality(ids) -> ids] :
            /\ \A x \in ids : \E i \in 1..Cardinality(ids) : s[i] = x
            /\ \A i, j \in 1..Cardinality(ids) :
                  i < j => db.workout_plans[s[i]].created_date
                             <= db.workout_plans[s[j]].created_date }

ActivePlansByDate(db, user_id) ==
    LET ids == ActivePlanIds(db.workout_plans, user_id)
    IN  { s \in [1..Cardinality(ids) -> ids] :
            /\ \A x \in ids : \E i \in 1..Cardinality(ids) : s[i] = x
            /\ \A i, j \in 1..Cardinality(ids) :
                  i < j => db.workout_plans[s[i]].created_date
                             >= db.workout_plans[s[j]].created_date }

\* the WorkoutPlan object built from row plan_id of workout_plans
WorkoutPlanOfRow(db, plan_id) == [plan_id |-> plan_id] @@ db.workout_plans[plan_id]

\* Database.load_workout_plan, both branches: the values it may return, a list
\* of plans as <<[plans |-> list]>>
LoadResults(db, user_id, arg) ==
    IF PlanIdTruthy(arg)
    THEN { load_workout_plan(db, user_id, arg.plan_id) }
    ELSE { <<[plans |-> [k \in 1..Len(s) |-> WorkoutPlanOfRow(db, s[k])]]>> :
             s \in ActivePlansByDate(db, user_id) }

----------------------------------------------------------------------------
(* The dispatch layer: handle_call_tool for the save_workout_plan tool.    *)

\* handle_database_error: the response built from an exception
handle_database_error(exc, msg) ==
    IF exc = UserPermissionError
    THEN [error |-> "Access denied", message |-> msg, code |-> 403]
    ELSE IF exc = DatabaseError
    THEN [error |-> "Database error", message |-> <<"Internal database error">>, code |-> 500]
    ELSE IF exc = ValueError
    THEN [error |-> "Invalid input", message |-> msg, code |-> 400]
    ELSE [error |-> "Internal error", message |-> <<"An unexpected error occurred">>, code |-> 500]

DefaultName(user_id) == IF user_id = "u1" THEN "User_u1" ELSE "User_u2"

\* ensure_user_exists
ensure_user_exists(db, user_id) ==
    IF get_user(db, user_id) = NoRet
    THEN create_user(db, user_id, DefaultName(user_id))
    ELSE Outcome(db, NoExc, <<>>, get_user(db, user_id))

\* the parameters Database.save_workout_plan declares, and the keywords
\* handle_save_workout_plan passes to it
SaveWorkoutPlanParameters == {"user_id", "plan_name", "exercises_list", "notes"}
SaveWorkoutPlanKeywords   == {"user_id", "plan_name", "exercises_list", "notes", "create_as_set"}

\* Python binds a call only when every keyword names a parameter
CallBinds(keywords, parameters) == keywords \subseteq parameters

\* handle_save_workout_plan
handle_save_workout_plan(db, user_id, plan_name, exercises_list, create_as_set, now) ==
    IF \E i \in 1..Len(exercises_list) :
            get_exercise_by_id(db, exercises_list[i].exercise_id) = NoRet
    THEN Outcome(db, ValueError, <<"Exercise ID ", " not found">>, NoRet)
    ELSE IF ~ CallBinds(SaveWorkoutPlanKeywords, SaveWorkoutPlanParameters)
    THEN Outcome(db, TypeError, <<"got an unexpected keyword argument ", "create_as_set">>, NoRet)
    ELSE save_workout_plan(db, user_id, plan_name, exercises_list, now)

\* handle_call_tool with name = "save_workout_plan": the tables afterwards and the response
handle_call_tool_save(db, user_id, plan_name, exercises_list, create_as_set, now) ==
    LET ensured == ensure_user_exists(db, user_id)
    IN  IF ensured.exc # NoExc
        THEN [ensured EXCEPT !.ret = <<handle_database_error(ensured.exc, ensured.msg)>>]
        ELSE LET r == handle_save_workout_plan(ensured.db, user_id, plan_name,
                                               exercises_list, create_as_set, now)
             IN  IF r.exc # NoExc
                 THEN [r EXCEPT !.ret = <<handle_database_error(r.exc, r.msg)>>]
                 ELSE [r EXCEPT !.ret = <<[success |-> TRUE,
                                            message |-> <<"Workout plan '", plan_name,
                                                          "' saved successfully">>,
                                            plan_id |-> r.ret[1].plan_id, plan |-> r.ret[1]]>>]

\* handle_load_workout_plan: the response built from what load_workout_plan returned
handle_load_workout_plan(arg, result) ==
    IF PlanIdTruthy(arg)
    THEN IF result = NoRet
         THEN [success |-> FALSE, message |-> "not found or not accessible"]
         ELSE [success |-> TRUE, workout_plan |-> result[1]]
    ELSE [success |-> TRUE, active_plans |-> result[1].plans, count |-> Len(result[1].plans)]

----------------------------------------------------------------------------
(* Personal records: Database.save_personal_record, load_personal_records  *)
(* and the two tools in front of them.  db is the tables with the table    *)
(* personal_records as a fifth field.                                      *)

\* models.validate_record_type: valid_types
valid_types == { <<"w", "e", "i", "g", "h", "t">>, <<"r", "e", "p", "s">>,
                 <<"t", "i", "m", "e">>, <<"d", "i", "s", "t", "a", "n", "c", "e">> }

\* str.lower
str_lower(text) == [i \in 1..Len(text) |-> Lower(text[i])]

\* models.validate_record_type
validate_record_type(record_type) == str_lower(record_type) \in valid_types

\* a datetime of January 2024: day and hour of the wall clock and, when it is
\* aware, the offset of its time zone from UTC in hours; None is NoDate
NoDate == [given |-> FALSE, aware |-> FALSE, day |-> 0, hour |-> 0, offset |-> 0]

DateTime(day, hour, aware, offset) ==
    [given |-> TRUE, aware |-> aware, day |-> day, hour |-> hour, offset |-> offset]

TwoDigits(n) == <<Digits[(n \div 10) + 1], Digits[(n % 10) + 1]>>

\* datetime.isoformat: 2024-01-DDTHH:00:00 and, for an aware datetime, +HH:00 or -HH:00
isoformat(date) ==
    <<"2", "0", "2", "4", "-", "0", "1", "-">> \o TwoDigits(date.day) \o <<"T">>
      \o TwoDigits(date.hour) \o <<":", "0", "0", ":", "0", "0">>
      \o (IF date.aware
          THEN <<IF date.offset < 0 THEN "-" ELSE "+">>
                 \o TwoDigits(IF date.offset < 0 THEN 0 - date.offset ELSE date.offset)
                 \o <<":", "0", "0">>
          ELSE <<>>)

PersonalRecordRow(user_id, exercise_name, record_type, value, unit, date) ==
    [user_id       |-> user_id,
     exercise_name |-> exercise_name,
     record_type   |-> record_type,
     value         |-> value,
     unit          |-> unit,
     date_achieved |-> isoformat(date)]

\* INSERT INTO personal_records: CHECK (record_type IN (...)), FOREIGN KEY (user_id)
InsertPersonalRecord(db, new) ==
    IF new.record_type \notin valid_types
    THEN Outcome(db, IntegrityError, <<"CHECK constraint failed">>, NoRet)
    ELSE IF new.user_id \notin DOMAIN db.users
    THEN Outcome(db, IntegrityError, ForeignMsg, NoRet)
    ELSE Outcome([db EXCEPT !.personal_records = Append(@, new)], NoExc, <<>>,
                 <<Len(db.personal_records) + 1>>)      \* cursor.lastrowid

\* the PersonalRecord object save_personal_record returns
PersonalRecord(record_id, user_id, exercise_name, record_type, value, unit, date) ==
    [record_id     |-> record_id,
     user_id       |-> user_id,
     exercise_name |-> exercise_name,
     record_type   |-> record_type,
     value         |-> value,
     unit          |-> unit,
     date_achieved |-> date]

\* Database.save_personal_record; now is what datetime.now() returns
save_personal_record(db, user_id, exercise_name, record_type, value, unit, date, now) ==
    IF ~ validate_record_type(record_type)
    THEN Outcome(db, ValueError, <<"Invalid record type", ". Must be one of: ">>, NoRet)
    ELSE LET d == IF date = NoDate THEN now ELSE date IN
         get_cursor(db,
            LET ins == InsertPersonalRecord(db,
                          PersonalRecordRow(user_id, exercise_name, record_type, value, unit, d))
            IN  IF ins.exc # NoExc THEN ins
                ELSE Outcome(ins.db, NoExc, <<>>,
                             <<PersonalRecord(ins.ret[1], user_id, exercise_name, record_type,
                                              value, unit, d)>>))

\* Python's truth value of an optional string: None (NULL) and "" are falsy
Truthy(text) == text # NULL /\ text # ""

\* the rows the query of load_personal_records selects; a record_type of <<>>
\* is None or "", which the method takes alike
SelectedRecords(db, user_id, exercise_name, record_type) ==
    { i \in 1..Len(db.personal_records) :
        /\ db.personal_records[i].user_id = user_id
        /\ Truthy(exercise_name) => db.personal_records[i].exercise_name = exercise_name
        /\ record_type # <<>> => db.personal_records[i].record_type = record_type }

\* ORDER BY date_achieved DESC: the column is TEXT, rows of one text in any order
RecordsByDate(db, ids) ==
    { s \in [1..Cardinality(ids) -> ids] :
        /\ \A x \in ids : \E i \in 1..Cardinality(ids) : s[i] = x
        /\ \A i, j \in 1..Cardinality(ids) :
              i < j => ~ TextLess(db.personal_records[s[i]].date_achieved,
                                  db.personal_records[s[j]].date_achieved) }

\* the dates the calls pass: the later instant first, as 23:00 at UTC-5 on the
\* 1st is 04:00 UTC on the 2nd; RecordNow is what datetime.now() returns
RecordDates == { DateTime(1, 23, TRUE, 0 - 5), DateTime(2, 1, TRUE, 0) }

RecordNow == DateTime(3, 12, FALSE, 0)

RecordDateTimes == RecordDates \cup {RecordNow}

\* datetime.fromisoformat: the datetime this text is the isoformat of
fromisoformat(text) == CHOOSE date \in RecordDateTimes : isoformat(date) = text

\* the PersonalRecord object built from row record_id of personal_records
PersonalRecordOfRow(db, record_id) ==
    [[record_id |-> record_id] @@ db.personal_records[record_id]
        EXCEPT !.date_achieved = fromisoformat(@)]

\* Database.load_personal_records: the outcomes it may have, the list returned
\* as <<[records |-> list]>>
load_personal_records(db, user_id, exercise_name, record_type) ==
    IF record_type # <<>> /\ ~ validate_record_type(record_type)
    THEN { get_cursor(db, Outcome(db, ValueError, <<"Invalid record type">>, NoRet)) }
    ELSE { Outcome(db, NoExc, <<>>,
                   <<[records |-> [k \in 1..Len(s) |-> PersonalRecordOfRow(db, s[k])]]>>) :
             s \in RecordsByDate(db, SelectedRecords(db, user_id, exercise_name, record_type)) }

\* arguments[key] of a handler: the first of keys that arguments lacks raises KeyError
MissingKeys(arguments, keys) ==
    { i \in 1..Len(keys) : keys[i] \notin DOMAIN arguments }

FirstMissing(arguments, keys) ==
    keys[CHOOSE i \in MissingKeys(arguments, keys) :
            \A j \in MissingKeys(arguments, keys) : i <= j]

\* arguments.get(key): the value, or the default when the key is absent
Get(arguments, key, default) == IF key \in DOMAIN arguments THEN arguments[key] ELSE default

\* PersonalRecord.to_dict
RecordToDict(record) == [record EXCEPT !.date_achieved = isoformat(@)]

\* handle_save_personal_record: the date argument is the datetime its text parses to
handle_save_personal_record(db, user_id, arguments, now) ==
    LET keys == <<"exercise_name", "record_type", "value", "unit">> IN
    IF MissingKeys(arguments, keys) # {}
    THEN Outcome(db, KeyError, <<FirstMissing(arguments, keys)>>, NoRet)
    ELSE LET r == save_personal_record(db, user_id, arguments.exercise_name,
                                       arguments.record_type, arguments.value, arguments.unit,
                                       Get(arguments, "date", NoDate), now)
         IN  IF r.exc # NoExc THEN r
             ELSE [r EXCEPT !.ret = <<[success |-> TRUE,
                                        message |-> <<"Personal record saved for ",
                                                      arguments.exercise_name>>,
                                        record  |-> RecordToDict(r.ret[1])]>>]

\* handle_load_personal_records: one outcome per order the rows may come in
handle_load_personal_records(db, user_id, arguments) ==
    { IF r.exc # NoExc THEN r
      ELSE [r EXCEPT !.ret =
              <<[success |-> TRUE,
                 personal_records |-> [k \in 1..Len(r.ret[1].records) |->
                                          RecordToDict(r.ret[1].records[k])],
                 count |-> Len(r.ret[1].records)]>>] :
        r \in load_personal_records(db, user_id, Get(arguments, "exercise_name", NULL),
                                    Get(arguments, "record_type", <<>>)) }

----------------------------------------------------------------------------
(* The dispatch layer: handle_call_tool for every tool name.  arguments is *)
(* the dict of the call, a function from the keys passed to their values.  *)

\* handle_list_exercises
handle_list_exercises(db, arguments) ==
    LET exercise_list == list_exercises(db, Get(arguments, "muscle_group", <<>>),
                                        Get(arguments, "equipment", <<>>),
                                        Get(arguments, "difficulty", 0))
    IN  Outcome(db, NoExc, <<>>,
                <<[success |-> TRUE, exercises |-> exercise_list, count |-> Len(exercise_list)]>>)

\* handle_create_exercise
handle_create_exercise(db, user_id, arguments) ==
    LET keys == <<"name", "description", "muscle_groups", "equipment_needed",
                  "difficulty_level", "instructions">> IN
    IF MissingKeys(arguments, keys) # {}
    THEN Outcome(db, KeyError, <<FirstMissing(arguments, keys)>>, NoRet)
    ELSE LET r == create_exercise(db, arguments.name, arguments.muscle_groups,
                                  arguments.equipment_needed, arguments.difficulty_level,
                                  user_id)
         IN  IF r.exc # NoExc THEN r
             ELSE [r EXCEPT !.ret = <<[success |-> TRUE,
                                        message |-> <<"Exercise '", arguments.name,
                                                      "' created successfully">>,
                                        exercise |-> r.ret[1]]>>]

\* handle_save_workout_plan, from the dict of the call
handle_save_workout_plan_tool(db, user_id, arguments, now) ==
    LET keys == <<"plan_name", "exercises_list">> IN
    IF MissingKeys(arguments, keys) # {}
    THEN Outcome(db, KeyError, <<FirstMissing(arguments, keys)>>, NoRet)
    ELSE LET r == handle_save_workout_plan(db, user_id, arguments.plan_name,
                                           arguments.exercises_list,
                                           Get(arguments, "create_as_set", FALSE), now)
         IN  IF r.exc # NoExc THEN r
             ELSE [r EXCEPT !.ret = <<[success |-> TRUE,
                                        message |-> <<"Workout plan '", arguments.plan_name,
                                                      "' saved successfully">>,
                                        plan_id |-> r.ret[1].plan_id, plan |-> r.ret[1]]>>]

\* handle_load_workout_plan, from the dict of the call
handle_load_workout_plan_tool(db, user_id, arguments) ==
    LET arg == IF "plan_id" \in DOMAIN arguments THEN PlanIdGiven(arguments.plan_id)
               ELSE PlanIdOmitted
    IN  { Outcome(db, NoExc, <<>>, <<handle_load_workout_plan(arg, result)>>) :
            result \in LoadResults(db, user_id, arg) }

\* the exercises handle_generate_workout_guidance offers: those list_exercises
\* returns for any of equipment_available and, of them, for any of muscle_focus
GuidanceExercises(db, equipment_available, muscle_focus) ==
    LET Ids(list) == { list[i].exercise_id : i \in 1..Len(list) }
        all_exercises == list_exercises(db, <<>>, <<>>, 0)
        equipment_exercise_ids ==
            UNION { Ids(list_exercises(db, <<>>, equipment_available[i], 0)) :
                      i \in 1..Len(equipment_available) }
        ByEquipment(ex) == ex.exercise_id \in equipment_exercise_ids
        offered == IF equipment_available # <<>>
                   THEN SelectSeq(all_exercises, ByEquipment)
                   ELSE all_exercises
        muscle_exercise_ids ==
            UNION { Ids(list_exercises(db, muscle_focus[i], <<>>, 0)) :
                      i \in 1..Len(muscle_focus) }
        ByMuscle(ex) == ex.exercise_id \in muscle_exercise_ids
    IN  IF muscle_focus # <<>> /\ offered # <<>>
        THEN SelectSeq(offered, ByMuscle)
        ELSE offered

\* handle_generate_workout_guidance; the fixed texts of the guidance are left out
handle_generate_workout_guidance(db, user_id, arguments) ==
    IF "user_id" \notin DOMAIN arguments
    THEN Outcome(db, KeyError, <<"user_id">>, NoRet)
    ELSE IF arguments.user_id # user_id
    THEN Outcome(db, NoExc, <<>>,
                 <<[success |-> FALSE,
                    error   |-> "Access denied: Cannot generate guidance for different user",
                    message |-> <<"User can only generate guidance for their own account">>]>>)
    ELSE IF get_user(db, user_id) = NoRet
    THEN Outcome(db, NoExc, <<>>,
                 <<[success |-> FALSE, error |-> "User not found",
                    message |-> <<"User ", user_id, " not found in database">>]>>)
    ELSE LET exercise_list == GuidanceExercises(db, Get(arguments, "equipment_available", <<>>),
                                                Get(arguments, "muscle_focus", <<>>))
         IN  Outcome(db, NoExc, <<>>,
                     <<[success |-> TRUE,
                        guidance |->
                          [active_plan_count   |-> get_active_plan_count(db, user_id),
                           available_exercises |-> [count |-> Len(exercise_list),
                                                    exercises |-> exercise_list],
                           user_cycle_info     |->
                             [current_cycle  |-> get_user(db, user_id)[1].current_cycle_number,
                              rotation_weeks |-> get_user(db, user_id)[1].rotation_weeks]]]>>)

ToolNames == {"list_exercises", "create_exercise", "save_workout_plan", "load_workout_plan",
              "save_personal_record", "load_personal_records", "generate_workout_guidance"}

\* the if/elif chain of handle_call_tool: the outcomes the handler of name may
\* have; now is the clock, as the created_date of a plan and as the date of a record
HandlerOutcomes(db, user_id, name, arguments, now) ==
    IF name = "list_exercises" THEN { handle_list_exercises(db, arguments) }
    ELSE IF name = "create_exercise" THEN { handle_create_exercise(db, user_id, arguments) }
    ELSE IF name = "save_workout_plan"
    THEN { handle_save_workout_plan_tool(db, user_id, arguments, now.created_date) }
    ELSE IF name = "load_workout_plan"
    THEN handle_load_workout_plan_tool(db, user_id, arguments)
    ELSE IF name = "save_personal_record"
    THEN { handle_save_personal_record(db, user_id, arguments, now.date) }
    ELSE IF name = "load_personal_records"
    THEN handle_load_personal_records(db, user_id, arguments)
    ELSE IF name = "generate_workout_guidance"
    THEN { handle_generate_workout_guidance(db, user_id, arguments) }
    ELSE { Outcome(db, NoExc, <<>>, <<[error |-> <<"Unknown tool: ", name>>]>>) }

\* handle_call_tool: ensure_user_exists, the handler, and  except Exception;
\* ret is the response, exc and msg the exception the response was built from
handle_call_tool(db, user_id, name, arguments, now) ==
    LET ensured == ensure_user_exists(db, user_id)
    IN  IF ensured.exc # NoExc
        THEN { [ensured EXCEPT !.ret = <<handle_database_error(ensured.exc, ensured.msg)>>] }
        ELSE { IF r.exc # NoExc
               THEN [r EXCEPT !.ret = <<handle_database_error(r.exc, r.msg)>>]
               ELSE r :
               r \in HandlerOutcomes(ensured.db, user_id, name, arguments, now) }

----------------------------------------------------------------------------
(* Spec: calls that run one after the other.                               *)

Savers  == {"s1", "s2", "s3", "s4"}
Readers == {"r1"}
Procs   == Savers \cup Readers

\* args holds the arguments of a call that the other fields have no place for
NoArgs == [given |-> FALSE]

NoCall == [op |-> "none", user_id |-> "", name |-> "", exercises_list |-> <<>>,
           create_as_set |-> FALSE, plan_id |-> 0, args |-> NoArgs,
           exc |-> NoExc, msg |-> <<>>, ret |-> NoRet]

IdleProcs ==
    /\ pc    = [p \in Procs |-> "idle"]
    /\ conn  = [p \in Procs |-> DB(<<>>, <<>>, <<>>, {})]
    /\ local = [p \in Procs |-> NoCall]
    /\ wlock = NoProc

Init ==
    /\ users = <<>>
    /\ exercises = <<>>
    /\ workout_plans = <<>>
    /\ planned_exercises = {}
    /\ personal_records = <<>>
    /\ last = NoCall
    /\ IdleProcs

\* the tables after a call, and the call with its outcome
Completes(call, r) ==
    \E done \in {r} :
        /\ users' = done.db.users
        /\ exercises' = done.db.exercises
        /\ workout_plans' = done.db.workout_plans
        /\ planned_exercises' = done.db.planned_exercises
        /\ last' = [call EXCEPT !.exc = done.exc, !.msg = done.msg, !.ret = done.ret]
        /\ UNCHANGED <<personal_records, procs>>

CreateUser ==
    \E u \in UserIds, n \in UserNames :
        Completes([NoCall EXCEPT !.op = "create_user", !.user_id = u, !.name = n],
                  create_user(CurrentDB, u, n))

UpdateUserRotation(callers) ==
    \E u \in callers, now \in Times :
        /\ u \in DOMAIN users => users[u].current_cycle_number < MaxCycle
        /\ Completes([NoCall EXCEPT !.op = "update_user_rotation", !.user_id = u],
                     update_user_rotation(CurrentDB, u, now))

DeactivateUserPlans ==
    \E u \in UserIds :
        Completes([NoCall EXCEPT !.op = "deactivate_user_plans", !.user_id = u],
                  deactivate_user_plans(CurrentDB, u))

\* the exercises Spec creates
PlanExercises ==
    { [name |-> n, muscle_groups |-> <<Chest>>, equipment_needed |-> <<>>] :
        n \in ExerciseNames }

CreateExercise(entries, difficulties, creators) ==
    \E e \in entries, d \in difficulties, u \in creators :
        Completes([NoCall EXCEPT !.op = "create_exercise", !.user_id = u,
                                 !.args = [name |-> e.name,
                                           muscle_groups |-> e.muscle_groups,
                                           equipment_needed |-> e.equipment_needed,
                                           difficulty_level |-> d]],
                  create_exercise(CurrentDB, e.name, e.muscle_groups, e.equipment_needed, d, u))

\* ret holds the returned list as [exercises |-> list]
ListExercises ==
    \E m \in MuscleGroupFilters, q \in EquipmentFilters, d \in DifficultyFilters :
        Completes([NoCall EXCEPT !.op = "list_exercises",
                                 !.args = [muscle_group |-> m, equipment |-> q, difficulty |-> d]],
                  get_cursor(CurrentDB,
                             Outcome(CurrentDB, NoExc, <<>>,
                                     <<[exercises |-> list_exercises(CurrentDB, m, q, d)]>>)))

SaveWorkoutPlan(inputs, lists, dates) ==
    \E in \in inputs, l \in lists, now \in dates :
        \E r \in { save_workout_plan(CurrentDB, in[1], in[2], l, now) } :
            /\ Len(r.db.workout_plans) <= MaxPlans
            /\ Completes([NoCall EXCEPT !.op = "save_workout_plan", !.user_id = in[1],
                                        !.name = in[2], !.exercises_list = l,
                                        !.args = [created_date |-> now]], r)

\* the plan_id arguments of load_workout_plan: every integer from lowest up to
\* the first plan_id not stored and, when omitted is TRUE, none at all
PlanIdArguments(lowest, omitted) ==
    { PlanIdGiven(id) : id \in lowest..(Len(workout_plans) + 1) }
      \cup (IF omitted THEN {PlanIdOmitted} ELSE {})

\* load_workout_plan, with the response the tool of that name renders
LoadWorkoutPlan(arguments) ==
    \E u \in UserIds, arg \in arguments :
        \E result \in LoadResults(CurrentDB, u, arg) :
            Completes([NoCall EXCEPT !.op = "load_workout_plan", !.user_id = u,
                                     !.plan_id = arg.plan_id,
                                     !.args = [given |-> arg.given,
                                               response |-> handle_load_workout_plan(arg, result)]],
                      get_cursor(CurrentDB, Outcome(CurrentDB, NoExc, <<>>, result)))

ToolSaveWorkoutPlan ==
    \E in \in SaveInputs, l \in ToolExerciseLists, c \in BOOLEAN, now \in PlanDates :
        \E r \in { handle_call_tool_save(CurrentDB, in[1], in[2], l, c, now) } :
            /\ Len(r.db.workout_plans) <= MaxPlans
            /\ Completes([NoCall EXCEPT !.op = "tool_save_workout_plan", !.user_id = in[1],
                                        !.name = in[2], !.exercises_list = l,
                                        !.create_as_set = c], r)

\* ensure_user_exists as a call of its own: how the dispatch layer provisions a caller
EnsureUserExists ==
    \E u \in UserIds :
        Completes([NoCall EXCEPT !.op = "ensure_user_exists", !.user_id = u],
                  ensure_user_exists(CurrentDB, u))

Next ==
    \/ EnsureUserExists
    \/ UpdateUserRotation(RotatingUsers)
    \/ DeactivateUserPlans
    \/ CreateExercise(PlanExercises, Difficulties, ExerciseCreators)
    \/ SaveWorkoutPlan(SaveInputs, ExerciseLists, PlanDates)
    \/ LoadWorkoutPlan(PlanIdArguments(1, FALSE))
    \/ ToolSaveWorkoutPlan

Spec == Init /\ [][Next]_vars

\* SpecUsers: the users table alone, with create_user called directly
NextUsers ==
    \/ CreateUser
    \/ UpdateUserRotation(UserIds)

SpecUsers == Init /\ [][NextUsers]_vars

\* SpecLoad: saving, deactivating and loading plans whose created_date varies,
\* for two provisioned users and one exercise
LoadSaveInputs == { <<"u1", "A">>, <<"u1", "B">>, <<"u1", "C">>, <<"u2", "A">> }
LoadDates      == {1, 2}

InitLoad ==
    /\ users = [u \in UserIds |-> NewUserRow(DefaultName(u))]
    /\ exercises = <<ExerciseRow("Push-ups", <<Chest>>, <<>>, 2, "u1")>>
    /\ workout_plans = <<>>
    /\ planned_exercises = {}
    /\ personal_records = <<>>
    /\ last = NoCall
    /\ IdleProcs

NextLoad ==
    \/ SaveWorkoutPlan(LoadSaveInputs, {<<Line(1), Line(1)>>}, LoadDates)
    \/ DeactivateUserPlans
    \/ LoadWorkoutPlan(PlanIdArguments(0, TRUE))

SpecLoad == InitLoad /\ [][NextLoad]_vars

\* SpecCatalog: the exercise catalog, for two provisioned users
InitCatalog ==
    /\ users = [u \in UserIds |-> NewUserRow(DefaultName(u))]
    /\ exercises = <<>>
    /\ workout_plans = <<>>
    /\ planned_exercises = {}
    /\ personal_records = <<>>
    /\ last = NoCall
    /\ IdleProcs

NextCatalog ==
    \/ CreateExercise(CatalogEntries, LowDifficulties, {"u1"})
    \/ CreateExercise(CatalogEntries, HighDifficulties, {"u2"})
    \/ ListExercises

SpecCatalog == InitCatalog /\ [][NextCatalog]_vars

\* SpecRoundTrip: plans whose line items differ in exercise, sets and reps are
\* saved, deactivated and loaded again
LineOf(exercise_id, sets, reps) == [exercise_id |-> exercise_id, sets |-> sets, reps |-> reps]

RoundTripLists ==
    { <<Line(1)>>,
      <<LineOf(2, 4, 8), Line(1)>>,
      <<Line(1), LineOf(2, 4, 8), LineOf(1, 5, 5)>>,
      <<Line(1), Line(MissingExerciseId)>> }

InitRoundTrip ==
    /\ users = [u \in UserIds |-> NewUserRow(DefaultName(u))]
    /\ exercises = <<ExerciseRow("Push-ups", <<Chest>>, <<>>, 2, "u1"),
                     ExerciseRow("Squats", <<>>, <<>>, 3, "u2")>>
    /\ workout_plans = <<>>
    /\ planned_exercises = {}
    /\ personal_records = <<>>
    /\ last = NoCall
    /\ IdleProcs

NextRoundTrip ==
    \/ SaveWorkoutPlan(SaveInputs, RoundTripLists, PlanDates)
    \/ DeactivateUserPlans
    \/ LoadWorkoutPlan(PlanIdArguments(1, FALSE))

SpecRoundTrip == InitRoundTrip /\ [][NextRoundTrip]_vars

----------------------------------------------------------------------------
(* SpecLife: the calls that write workout_plans, save_workout_plan and     *)
(* deactivate_user_plans, with the save_workout_plan tool and the rotation *)
(* of the cycle; u1 and the exercise Push-ups exist, u2 does not.           *)

InitLife ==
    /\ users = [u \in {"u1"} |-> NewUserRow(DefaultName(u))]
    /\ exercises = <<ExerciseRow("Push-ups", <<Chest>>, <<>>, 2, "u1")>>
    /\ workout_plans = <<>>
    /\ planned_exercises = {}
    /\ personal_records = <<>>
    /\ last = NoCall
    /\ IdleProcs

NextLife ==
    \/ SaveWorkoutPlan(SaveInputs, ExerciseLists, PlanDates)
    \/ ToolSaveWorkoutPlan
    \/ DeactivateUserPlans
    \/ UpdateUserRotation(RotatingUsers)

SpecLife == InitLife /\ [][NextLife]_vars

----------------------------------------------------------------------------
(* SpecRecords: personal records saved and loaded, by calls of the         *)
(* Database methods and by calls of the two tools.  u2 has no row in users *)
(* until a tool call provisions it.                                        *)

MaxRecords == 3

Weight      == <<"w", "e", "i", "g", "h", "t">>
WeightTitle == <<"W", "e", "i", "g", "h", "t">>
Reps        == <<"r", "e", "p", "s">>
Bogus       == <<"b", "o", "g", "u", "s">>

RecordArgument(exercise_name, record_type, value, unit) ==
    [exercise_name |-> exercise_name, record_type |-> record_type, value |-> value,
     unit |-> unit]

Dated(arguments, date) == arguments @@ [date |-> date]

ValidRecordArguments ==
    { Dated(RecordArgument("Bench", Weight, 100, "kg"), DateTime(1, 23, TRUE, 0 - 5)),
      Dated(RecordArgument("Bench", Weight, 105, "kg"), DateTime(2, 1, TRUE, 0)),
      RecordArgument("Squat", Reps, 12, "reps") }

InvalidRecordArguments ==
    { Dated(RecordArgument("Bench", WeightTitle, 100, "kg"), DateTime(2, 1, TRUE, 0)),
      RecordArgument("Bench", Bogus, 100, "kg"),
      RecordArgument("Bench", <<>>, 100, "kg") }

\* u2 saves the first-day record only
SaveRecordInputs ==
    { <<u, a>> \in UserIds \X (ValidRecordArguments \cup InvalidRecordArguments) :
        u = "u2" => Get(a, "date", NoDate) = DateTime(1, 23, TRUE, 0 - 5) }

RecordNameFilters == { NULL, "", "Bench" }
RecordTypeFilters == { <<>>, Weight, Bogus }

LoadRecordArguments ==
    { [x \in {} |-> x], [exercise_name |-> "Bench"], [record_type |-> Weight],
      [exercise_name |-> "Bench", record_type |-> Weight], [record_type |-> Bogus] }

RecordsDB ==
    [users |-> users, exercises |-> exercises, workout_plans |-> workout_plans,
     planned_exercises |-> planned_exercises, personal_records |-> personal_records]

Clock == [created_date |-> 1, date |-> RecordNow]

CompletesAll(call, r) ==
    \E done \in {r} :
        /\ users' = done.db.users
        /\ exercises' = done.db.exercises
        /\ workout_plans' = done.db.workout_plans
        /\ planned_exercises' = done.db.planned_exercises
        /\ personal_records' = done.db.personal_records
        /\ last' = [call EXCEPT !.exc = done.exc, !.msg = done.msg, !.ret = done.ret]
        /\ UNCHANGED procs

SavePersonalRecord ==
    \E in \in SaveRecordInputs :
        \E r \in { save_personal_record(RecordsDB, in[1], in[2].exercise_name,
                                         in[2].record_type, in[2].value, in[2].unit,
                                         Get(in[2], "date", NoDate), RecordNow) } :
            /\ Len(r.db.personal_records) <= MaxRecords
            /\ CompletesAll([NoCall EXCEPT !.op = "save_personal_record", !.user_id = in[1],
                                           !.args = [arguments |-> in[2]]], r)

LoadPersonalRecords ==
    \E u \in UserIds, n \in RecordNameFilters, t \in RecordTypeFilters :
        \E r \in load_personal_records(RecordsDB, u, n, t) :
            CompletesAll([NoCall EXCEPT !.op = "load_personal_records", !.user_id = u,
                                       !.args = [exercise_name |-> n, record_type |-> t]], r)

\* handle_call_tool for a call of calls, a set of <<name, arguments>>
CallTool(callers, calls) ==
    \E u \in callers, c \in calls :
        \E r \in handle_call_tool(RecordsDB, u, c[1], c[2], Clock) :
            /\ Len(r.db.personal_records) <= MaxRecords
            /\ Len(r.db.workout_plans) <= MaxPlans
            /\ CompletesAll([NoCall EXCEPT !.op = "call_tool", !.user_id = u, !.name = c[1],
                                           !.args = [arguments |-> c[2]]], r)

RecordToolCalls ==
    { <<"save_personal_record", in[2]>> : in \in SaveRecordInputs }
      \cup { <<"load_personal_records", a>> : a \in LoadRecordArguments }

InitRecords ==
    /\ users = [u \in {"u1"} |-> NewUserRow(DefaultName(u))]
    /\ exercises = <<>>
    /\ workout_plans = <<>>
    /\ planned_exercises = {}
    /\ personal_records = <<>>
    /\ last = NoCall
    /\ IdleProcs

NextRecords ==
    \/ SavePersonalRecord
    \/ LoadPersonalRecords
    \/ CallTool(UserIds, RecordToolCalls)

SpecRecords == InitRecords /\ [][NextRecords]_vars

----------------------------------------------------------------------------
(* SpecTools: calls of handle_call_tool for every tool name and for a name *)
(* that is no tool, with all, some or none of the required arguments, on a *)
(* database that starts empty.                                             *)

EmptyDict == [x \in {} |-> x]

\* arguments without the key
Without(arguments, key) == [k \in DOMAIN arguments \ {key} |-> arguments[k]]

CreateExerciseArguments(difficulty_level) ==
    [name |-> "Push-ups", description |-> "d", muscle_groups |-> <<Chest>>,
     equipment_needed |-> <<>>, difficulty_level |-> difficulty_level, instructions |-> "i"]

SavePlanArguments(exercise_id) ==
    [plan_name |-> "A", exercises_list |-> <<Line(exercise_id)>>]

ToolCalls ==
    { <<"list_exercises", EmptyDict>>,
      <<"create_exercise", CreateExerciseArguments(2)>>,
      <<"create_exercise", CreateExerciseArguments(9)>>,
      <<"create_exercise", Without(CreateExerciseArguments(2), "name")>>,
      <<"save_workout_plan", SavePlanArguments(1)>>,
      <<"save_workout_plan", SavePlanArguments(MissingExerciseId)>>,
      <<"save_workout_plan", Without(SavePlanArguments(1), "exercises_list")>>,
      <<"load_workout_plan", EmptyDict>>,
      <<"load_workout_plan", [plan_id |-> 1]>>,
      <<"save_personal_record", RecordArgument("Bench", Weight, 100, "kg")>>,
      <<"save_personal_record", Without(RecordArgument("Bench", Weight, 100, "kg"), "unit")>>,
      <<"load_personal_records", EmptyDict>>,
      <<"generate_workout_guidance", [user_id |-> "u1"]>>,
      <<"generate_workout_guidance", [user_id |-> "u2", muscle_focus |-> <<Chest>>]>>,
      <<"generate_workout_guidance", EmptyDict>>,
      <<"delete_workout_plan", [plan_id |-> 1]>> }

InitTools == Init

NextTools == CallTool(UserIds, ToolCalls)

SpecTools == InitTools /\ [][NextTools]_vars

----------------------------------------------------------------------------
(* SpecConc: callers whose statements interleave on one database file.     *)
(*                                                                         *)
(* Each caller opens its own connection (get_connection).  sqlite3 begins  *)
(* a transaction at the first INSERT, which takes SQLite's write lock for  *)
(* the connection or waits while another connection holds it; conn[p] is   *)
(* what that connection sees until conn.commit() publishes it to the       *)
(* tables or conn.rollback() drops it.  SELECTs read the committed tables. *)

MaxReadId == 2     \* highest plan_id the reader asks for

SeedNames == <<"P1", "P2", "P3", "P4">>
SeedList  == <<Line(1), Line(1)>>

\* the plan name each saver passes: distinct names, none of them a seed's
SaverName(p) == CASE p = "s1" -> "A" [] p = "s2" -> "B" [] p = "s3" -> "C" [] OTHER -> "D"

\* the exercises_list each saver may pass: s1 also one whose second line fails
SaverLists(p) ==
    IF p = "s1" THEN { <<Line(1), Line(1)>>, <<Line(1), Line(MissingExerciseId)>> }
    ELSE { <<Line(1), Line(1)>> }

RowsOfList(plan_id, exercises_list) ==
    { PlannedRow(plan_id, exercises_list[i], i) : i \in 1..Len(exercises_list) }

\* the tables after ensure_user_exists("u1"), create_exercise("Push-ups") and
\* a calls of save_workout_plan("u1", SeedNames[i], SeedList)
SeededDB(a) ==
    DB([u \in {"u1"} |-> NewUserRow(DefaultName("u1"))],
       <<ExerciseRow("Push-ups", <<Chest>>, <<>>, 2, "u1")>>,
       [i \in 1..a |-> PlanRow("u1", SeedNames[i], 1, 1)],
       UNION { RowsOfList(i, SeedList) : i \in 1..a })

InitConc ==
    /\ \E a \in 0..MaxActivePlans :
          /\ users = SeededDB(a).users
          /\ exercises = SeededDB(a).exercises
          /\ workout_plans = SeededDB(a).workout_plans
          /\ planned_exercises = SeededDB(a).planned_exercises
    /\ personal_records = <<>>
    /\ last = NoCall
    /\ IdleProcs

\* what the other connections read while a transaction is open: the committed
\* tables, conn.commit() has not run yet
ReadableDuring_write_through(committed, txdb) == txdb

ReadableDuring(committed, txdb) == committed

Publish(db) ==
    /\ users' = db.users
    /\ exercises' = db.exercises
    /\ workout_plans' = db.workout_plans
    /\ planned_exercises' = db.planned_exercises

\* the exception leaves the with-block: get_cursor rolls back, closes the
\* connection (the write lock is released) and raises DatabaseError
Raises(p, body) ==
    LET r == get_cursor(CurrentDB, body)
    IN  /\ pc' = [pc EXCEPT ![p] = "done"]
        /\ local' = [local EXCEPT ![p].exc = r.exc, ![p].msg = r.msg, ![p].ret = r.ret]
        /\ conn' = [conn EXCEPT ![p] = DB(<<>>, <<>>, <<>>, {})]
        /\ wlock' = IF wlock = p THEN NoProc ELSE wlock
        /\ Publish(r.db)

\* save_workout_plan up to  user = self.get_user(user_id)
SaveGetUser(p) ==
    /\ pc[p] = "idle"
    /\ \E l \in SaverLists(p) :
         LET call == [NoCall EXCEPT !.op = "save_workout_plan", !.user_id = "u1",
                                    !.name = SaverName(p), !.exercises_list = l,
                                    !.ret = get_user(CurrentDB, "u1")]
         IN  IF call.ret = NoRet
             THEN /\ Raises(p, SaveBody(CurrentDB, NoRet, "u1", SaverName(p), l, 1))
                  /\ UNCHANGED <<last, personal_records>>
             ELSE /\ pc' = [pc EXCEPT ![p] = "insert_plan"]
                  /\ local' = [local EXCEPT ![p] = call]
                  /\ UNCHANGED <<tables, last, personal_records, conn, wlock>>

\* created_date = datetime.now() and the INSERT INTO workout_plans, which
\* begins the transaction
SaveInsertPlan(p) ==
    /\ pc[p] = "insert_plan"
    /\ wlock = NoProc
    /\ \E now \in PlanDates :
       LET user == local[p].ret
           ins  == InsertWorkoutPlan(CurrentDB,
                       PlanRow(local[p].user_id, local[p].name, user[1].current_cycle_number,
                               now))
       IN  IF ins.exc # NoExc
           THEN /\ Raises(p, SaveIntegrityHandler(ins))
                /\ UNCHANGED <<last, personal_records>>
           ELSE /\ pc' = [pc EXCEPT ![p] = "insert_lines"]
                /\ local' = [local EXCEPT ![p].plan_id = ins.ret[1],
                                          ![p].args = [created_date |-> now]]
                /\ conn' = [conn EXCEPT ![p] = ins.db]
                /\ wlock' = p
                /\ Publish(ReadableDuring(CurrentDB, ins.db))
                /\ UNCHANGED <<last, personal_records>>

\* one turn of the for-loop: the INSERT INTO planned_exercises of the next line
SaveInsertLine(p) ==
    /\ pc[p] = "insert_lines"
    /\ LET order == Cardinality({ r \in conn[p].planned_exercises :
                                     r.plan_id = local[p].plan_id }) + 1
       IN  /\ order <= Len(local[p].exercises_list)
           /\ LET ins == InsertPlannedExercise(conn[p],
                             PlannedRow(local[p].plan_id, local[p].exercises_list[order], order))
              IN  IF ins.exc # NoExc
                  THEN /\ Raises(p, SaveIntegrityHandler(ins))
                       /\ UNCHANGED <<last, personal_records>>
                  ELSE /\ conn' = [conn EXCEPT ![p] = ins.db]
                       /\ Publish(ReadableDuring(CurrentDB, ins.db))
                       /\ UNCHANGED <<pc, local, wlock, last, personal_records>>

\* the loop is over: return WorkoutPlan(...), then conn.commit() in get_cursor
SaveCommit(p) ==
    /\ pc[p] = "insert_lines"
    /\ Cardinality({ r \in conn[p].planned_exercises : r.plan_id = local[p].plan_id })
         >= Len(local[p].exercises_list)
    /\ LET user == local[p].ret
           r == get_cursor(CurrentDB,
                    Outcome(conn[p], NoExc, <<>>,
                            <<[plan_id |-> local[p].plan_id]
                              @@ PlanRow(local[p].user_id, local[p].name,
                                         user[1].current_cycle_number,
                                         local[p].args.created_date)>>))
       IN  /\ Publish(r.db)
           /\ pc' = [pc EXCEPT ![p] = "done"]
           /\ local' = [local EXCEPT ![p].exc = r.exc, ![p].msg = r.msg, ![p].ret = r.ret]
           /\ conn' = [conn EXCEPT ![p] = DB(<<>>, <<>>, <<>>, {})]
           /\ wlock' = NoProc
           /\ UNCHANGED <<last, personal_records>>

\* load_workout_plan(user_id, plan_id): the SELECT on workout_plans
LoadSelectPlan(p) ==
    /\ pc[p] = "idle"
    /\ \E id \in 1..MaxReadId :
         LET plan_row == LoadPlanRow(CurrentDB, "u1", id)
         IN  /\ pc' = [pc EXCEPT ![p] = IF plan_row = NoRet THEN "done" ELSE "select_lines"]
             /\ local' = [local EXCEPT ![p] =
                            [NoCall EXCEPT !.op = "load_workout_plan", !.user_id = "u1",
                                           !.plan_id = id, !.ret = plan_row]]
             /\ UNCHANGED <<tables, last, personal_records, conn, wlock>>

\* load_workout_plan: the SELECT on planned_exercises JOIN exercises, and the return
LoadSelectLines(p) ==
    /\ pc[p] = "select_lines"
    /\ pc' = [pc EXCEPT ![p] = "done"]
    /\ local' = [local EXCEPT ![p].ret =
                    <<[plan |-> local[p].ret[1],
                       exercises |-> LoadPlanLines(CurrentDB, local[p].plan_id)]>>]
    /\ UNCHANGED <<tables, last, personal_records, conn, wlock>>

NextConc ==
    \/ \E p \in Savers : SaveGetUser(p)
    \/ \E p \in Savers : SaveInsertPlan(p)
    \/ \E p \in Savers : SaveInsertLine(p)
    \/ \E p \in Savers : SaveCommit(p)
    \/ \E p \in Readers : LoadSelectPlan(p)
    \/ \E p \in Readers : LoadSelectLines(p)

SpecConc == InitConc /\ [][NextConc]_vars

----------------------------------------------------------------------------
(* SpecRot: a rotation of u1, deactivate_user_plans and then               *)
(* update_user_rotation, each one transaction of its own, while savers     *)
(* save plans of u1.  A transaction of a single UPDATE takes the write     *)
(* lock and commits in one step.                                           *)

Rotator   == "r1"                  \* the caller that rotates
RotSavers == {"s1", "s2"}
MaxSeeded == 2                     \* plans stored before the calls start

\* deactivate_user_plans("u1"), the first call of the rotation
RotDeactivate(p) ==
    /\ pc[p] = "idle"
    /\ wlock = NoProc
    /\ \E r \in { deactivate_user_plans(CurrentDB, "u1") } :
          /\ Publish(r.db)
          /\ pc' = [pc EXCEPT ![p] = "deactivated"]
          /\ local' = [local EXCEPT ![p] =
                         [NoCall EXCEPT !.op = "deactivate_user_plans", !.user_id = "u1",
                                        !.exc = r.exc, !.msg = r.msg]]
    /\ UNCHANGED <<last, personal_records, conn, wlock>>

\* update_user_rotation("u1"), the second call of the rotation
RotUpdate(p) ==
    /\ pc[p] = "deactivated"
    /\ wlock = NoProc
    /\ \E now \in Times :
        \E r \in { update_user_rotation(CurrentDB, "u1", now) } :
          /\ Publish(r.db)
          /\ pc' = [pc EXCEPT ![p] = "done"]
          /\ local' = [local EXCEPT ![p] =
                         [NoCall EXCEPT !.op = "update_user_rotation", !.user_id = "u1",
                                        !.exc = r.exc, !.msg = r.msg]]
    /\ UNCHANGED <<last, personal_records, conn, wlock>>

InitRot ==
    /\ \E a \in 0..MaxSeeded :
          /\ users = SeededDB(a).users
          /\ exercises = SeededDB(a).exercises
          /\ workout_plans = SeededDB(a).workout_plans
          /\ planned_exercises = SeededDB(a).planned_exercises
    /\ personal_records = <<>>
    /\ last = NoCall
    /\ IdleProcs

NextRot ==
    \/ \E p \in RotSavers : SaveGetUser(p)
    \/ \E p \in RotSavers : SaveInsertPlan(p)
    \/ \E p \in RotSavers : SaveInsertLine(p)
    \/ \E p \in RotSavers : SaveCommit(p)
    \/ RotDeactivate(Rotator)
    \/ RotUpdate(Rotator)

SpecRot == InitRot /\ [][NextRot]_vars

----------------------------------------------------------------------------
(* SpecProv: tool calls of several callers whose provisioning interleaves. *)
(*                                                                         *)
(* handle_call_tool starts with ensure_user_exists(user_id).  Its          *)
(* statements are db.get_user (a SELECT over a connection of its own) and, *)
(* when that found no row, db.create_user: a SELECT, then either get_user  *)
(* again or the INSERT INTO users, then conn.commit().                     *)

Callers == {"c1", "c2", "c3"}

\* INSERT INTO users: user_id is the PRIMARY KEY
InsertUser(db, user_id, name) ==
    IF user_id \in DOMAIN db.users
    THEN Outcome(db, IntegrityError, UniqueMsg \o <<": users.user_id">>, NoRet)
    ELSE LET db2 == [db EXCEPT !.users =
                       [u \in DOMAIN db.users \cup {user_id} |->
                           IF u = user_id THEN NewUserRow(name) ELSE db.users[u]]]
         IN  Outcome(db2, NoExc, <<>>, <<UserRecord(db2, user_id)>>)

InitProv ==
    /\ users = <<>>
    /\ exercises = <<>>
    /\ workout_plans = <<>>
    /\ planned_exercises = {}
    /\ personal_records = <<>>
    /\ last = NoCall
    /\ pc    = [p \in Callers |-> "idle"]
    /\ conn  = [p \in Callers |-> DB(<<>>, <<>>, <<>>, {})]
    /\ local = [p \in Callers |-> NoCall]
    /\ wlock = NoProc

\* the call returns: the response handle_call_tool builds when
\* ensure_user_exists raised, otherwise the user ensure_user_exists returned
ProvReturns(p, r) ==
    /\ pc' = [pc EXCEPT ![p] = "done"]
    /\ local' = [local EXCEPT ![p].exc = r.exc, ![p].msg = r.msg,
                              ![p].ret = IF r.exc # NoExc
                                         THEN <<handle_database_error(r.exc, r.msg)>>
                                         ELSE r.ret]
    /\ conn' = [conn EXCEPT ![p] = DB(<<>>, <<>>, <<>>, {})]
    /\ wlock' = IF wlock = p THEN NoProc ELSE wlock
    /\ Publish(r.db)
    /\ UNCHANGED <<last, personal_records>>

\* ensure_user_exists:  user = db.get_user(user_id)
ProvGetUser(p) ==
    /\ pc[p] = "idle"
    /\ \E u \in UserIds :
         LET user == get_user(CurrentDB, u)
         IN  IF user # NoRet
             THEN /\ pc' = [pc EXCEPT ![p] = "done"]
                  /\ local' = [local EXCEPT ![p] =
                                 [NoCall EXCEPT !.op = "ensure_user_exists", !.user_id = u,
                                                !.ret = user]]
                  /\ UNCHANGED <<tables, last, personal_records, conn, wlock>>
             ELSE /\ pc' = [pc EXCEPT ![p] = "create_select"]
                  /\ local' = [local EXCEPT ![p] =
                                 [NoCall EXCEPT !.op = "ensure_user_exists", !.user_id = u,
                                                !.name = DefaultName(u)]]
                  /\ UNCHANGED <<tables, last, personal_records, conn, wlock>>

\* create_user:  SELECT user_id FROM users WHERE user_id = ?
ProvCreateSelect(p) ==
    /\ pc[p] = "create_select"
    /\ pc' = [pc EXCEPT ![p] = IF local[p].user_id \in DOMAIN users
                               THEN "get_existing" ELSE "insert_user"]
    /\ UNCHANGED <<tables, last, personal_records, conn, local, wlock>>

\* create_user, the row exists:  existing_user = self.get_user(user_id)
ProvGetExisting(p) ==
    /\ pc[p] = "get_existing"
    /\ LET existing_user == get_user(CurrentDB, local[p].user_id)
       IN  ProvReturns(p, get_cursor(CurrentDB,
               IF existing_user = NoRet
               THEN Outcome(CurrentDB, DatabaseError,
                            <<"exists in database but could not be retrieved">>, NoRet)
               ELSE Outcome(CurrentDB, NoExc, <<>>, existing_user)))

\* create_user:  INSERT INTO users, which begins the transaction once no other
\* connection holds the write lock
ProvInsertUser(p) ==
    /\ pc[p] = "insert_user"
    /\ wlock = NoProc
    /\ LET ins == InsertUser(CurrentDB, local[p].user_id, local[p].name)
       IN  IF ins.exc # NoExc
           THEN ProvReturns(p, get_cursor(CurrentDB, ins))
           ELSE /\ pc' = [pc EXCEPT ![p] = "commit_user"]
                /\ local' = [local EXCEPT ![p].ret = ins.ret]
                /\ conn' = [conn EXCEPT ![p] = ins.db]
                /\ wlock' = p
                /\ Publish(ReadableDuring(CurrentDB, ins.db))
                /\ UNCHANGED <<last, personal_records>>

\* create_user:  return User(...), then conn.commit() in get_cursor
ProvCommit(p) ==
    /\ pc[p] = "commit_user"
    /\ ProvReturns(p, get_cursor(CurrentDB, Outcome(conn[p], NoExc, <<>>, local[p].ret)))

NextProv ==
    \/ \E p \in Callers : ProvGetUser(p)
    \/ \E p \in Callers : ProvCreateSelect(p)
    \/ \E p \in Callers : ProvGetExisting(p)
    \/ \E p \in Callers : ProvInsertUser(p)
    \/ \E p \in Callers : ProvCommit(p)

SpecProv == InitProv /\ [][NextProv]_vars

----------------------------------------------------------------------------
(* The claims.                                                             *)

Min(a, b) == IF a <= b THEN a ELSE b

LimitStated(msg) == Contains(msg, "User already has 3 active workout plans.")

ExercisesExist(db, exercises_list) ==
    \A i \in 1..Len(exercises_list) : exercises_list[i].exercise_id \in 1..Len(db.exercises)

\* plan_name is not used by user_id in the user's current cycle
NameUnused(db, user_id, plan_name) ==
    \A i \in 1..Len(db.workout_plans) :
        ~ /\ db.workout_plans[i].user_id = user_id
          /\ db.workout_plans[i].plan_name = plan_name
          /\ user_id \in DOMAIN db.users
          /\ db.workout_plans[i].cycle_number = db.users[user_id].current_cycle_number

ReturnedSavers ==
    { p \in Savers : pc[p] = "done" /\ ExercisesExist(CurrentDB, local[p].exercises_list) }

SucceededSavers == { p \in ReturnedSavers : local[p].exc = NoExc }

\* the active plans u1 had before the concurrent calls started
SeedCount ==
    Cardinality({ i \in 1..Len(workout_plans) :
                    \E j \in 1..Len(SeedNames) : workout_plans[i].plan_name = SeedNames[j] })

ToolArgumentsValid(db, call) ==
    /\ Len(call.exercises_list) > 0
    /\ ExercisesExist(db, call.exercises_list)
    /\ NameUnused(db, call.user_id, call.name)

NewPlanStored(call) ==
    /\ Len(workout_plans') = Len(workout_plans) + 1
    /\ workout_plans'[Len(workout_plans')].user_id = call.user_id
    /\ workout_plans'[Len(workout_plans')].plan_name = call.name
    /\ workout_plans'[Len(workout_plans')].is_active

\* C4: after a save_workout_plan tool call with create_as_set = true for user U,
\* exactly one plan is active for U and it is the newly created one; every plan
\* of U that was active before the call is inactive.
C4_SetBoundary ==
    [][ ( /\ last'.op = "tool_save_workout_plan"
          /\ last'.create_as_set
          /\ ToolArgumentsValid(CurrentDB, last') ) =>
            /\ NewPlanStored(last')
            /\ ActivePlanIds(workout_plans', last'.user_id) = {Len(workout_plans')} ]_vars

\* C5: a save_workout_plan tool call with create_as_set = false deactivates no
\* sibling: every plan of the caller that was active before the call is active
\* after it, and the new plan is added as an active plan.
C5_NoSiblingDeactivated ==
    [][ ( /\ last'.op = "tool_save_workout_plan"
          /\ ~ last'.create_as_set
          /\ ToolArgumentsValid(CurrentDB, last')
          /\ get_active_plan_count(CurrentDB, last'.user_id) < 3 ) =>
            /\ NewPlanStored(last')
            /\ ActivePlanIds(workout_plans', last'.user_id) =
                 ActivePlanIds(workout_plans, last'.user_id) \cup {Len(workout_plans')} ]_vars

\* the response is a success envelope
Succeeded(response) == "success" \in DOMAIN response /\ response.success

\* C6: through the save_workout_plan tool there is no maximum number of active
\* plans: a call with an unused plan name, existing exercise ids and
\* create_as_set = false succeeds when the caller already has 3 active plans.
C6_NoCapThroughTool ==
    [][ ( /\ last'.op = "tool_save_workout_plan"
          /\ ~ last'.create_as_set
          /\ ToolArgumentsValid(CurrentDB, last')
          /\ get_active_plan_count(CurrentDB, last'.user_id) >= 3 ) =>
            /\ Succeeded(last'.ret[1])
            /\ get_active_plan_count(DB(users', exercises', workout_plans', planned_exercises'),
                                     last'.user_id) > 3 ]_vars

\* C7: a plan's cycle_number is its owner's current_cycle_number when
\* save_workout_plan inserted it, no later call changes it, and
\* load_workout_plan returns it as stored, also after the owner's cycle advanced.
C7_CycleSnapshot ==
    [][ /\ Len(workout_plans') >= Len(workout_plans)
        /\ \A i \in 1..Len(workout_plans) :
              workout_plans'[i].cycle_number = workout_plans[i].cycle_number
        /\ (last'.op = "save_workout_plan" /\ last'.exc = NoExc) =>
              /\ last'.ret[1].cycle_number = users[last'.user_id].current_cycle_number
              /\ workout_plans'[last'.ret[1].plan_id].cycle_number =
                    users'[last'.user_id].current_cycle_number
        /\ (last'.op = "load_workout_plan" /\ last'.ret # NoRet) =>
              last'.ret[1].plan.cycle_number = workout_plans[last'.plan_id].cycle_number ]_vars

\* a plan saved at cycle 1 is loaded with cycle_number 1 by a user who is at
\* cycle 2 and owns a plan of cycle 2 as well
C7_Witness ==
    /\ last.op = "load_workout_plan"
    /\ last.ret # NoRet
    /\ last.ret[1].plan.cycle_number = 1
    /\ users[last.user_id].current_cycle_number = 2
    /\ \E i \in 1..Len(workout_plans) :
          workout_plans[i].user_id = last.user_id /\ workout_plans[i].cycle_number = 2

\* C8: create_user for a user_id that exists raises no error, returns the
\* stored record (stored name, current_cycle_number, last_rotation_date) and
\* leaves the users table unchanged, whatever name is passed.
C8_CreateUserIdempotent ==
    [][ (last'.op = "create_user" /\ last'.user_id \in DOMAIN users) =>
          /\ last'.exc = NoExc
          /\ last'.ret = <<UserRecord(CurrentDB, last'.user_id)>>
          /\ users' = users ]_vars

\* create_user was called with another name for a user whose cycle has advanced
C8_Witness ==
    /\ last.op = "create_user"
    /\ last.user_id \in DOMAIN users
    /\ last.name # users[last.user_id].name
    /\ users[last.user_id].current_cycle_number > 1
    /\ last.ret[1].last_rotation_date # NULL

\* C9: a save_workout_plan call that fails leaves workout_plans and
\* planned_exercises exactly as before the call; one that succeeds adds the plan
\* row and all of its line items.
C9_AllOrNothing ==
    [][ last'.op = "save_workout_plan" =>
          IF last'.exc # NoExc
          THEN /\ workout_plans' = workout_plans
               /\ planned_exercises' = planned_exercises
          ELSE /\ workout_plans' = Append(workout_plans, PlanRow(last'.user_id, last'.name,
                                            users[last'.user_id].current_cycle_number,
                                            last'.args.created_date))
               /\ planned_exercises' = planned_exercises \cup
                     RowsOfList(Len(workout_plans'), last'.exercises_list) ]_vars

\* a save failed on its second line item, after the plan row and the first
\* line item had been inserted
C9_Witness ==
    /\ last.op = "save_workout_plan"
    /\ last.exc # NoExc
    /\ Contains(last.msg, "FOREIGN KEY constraint failed")
    /\ last.exercises_list[1].exercise_id \in 1..Len(exercises)
    /\ last.exercises_list[2].exercise_id \notin 1..Len(exercises)
    /\ last.user_id \in DOMAIN users

\* the caller whose save_workout_plan call committed plan id, if it was a saver
CommittedBy(id) ==
    { p \in Savers : pc[p] = "done" /\ local[p].exc = NoExc /\ local[p].ret[1].plan_id = id }

\* C10: a load_workout_plan call that runs while save_workout_plan calls run
\* sees no trace of a new plan or the plan with all of its line items.
C10_NoPartialRead ==
    \A r \in Readers :
        /\ pc[r] = "select_lines" => local[r].plan_id \in 1..Len(workout_plans)
        /\ (pc[r] = "done" /\ local[r].ret # NoRet) =>
              LET view == local[r].ret[1] IN
              /\ local[r].plan_id \in 1..Len(workout_plans)
              /\ view.exercises = LoadPlanLines(CurrentDB, local[r].plan_id)
              /\ \/ /\ local[r].plan_id <= SeedCount
                    /\ Len(view.exercises) = Len(SeedList)
                 \/ \E p \in CommittedBy(local[r].plan_id) :
                       /\ Len(view.exercises) = Len(local[p].exercises_list)
                       /\ \A i \in 1..Len(view.exercises) :
                             /\ view.exercises[i].order_in_plan = i
                             /\ view.exercises[i].exercise_id =
                                   local[p].exercises_list[i].exercise_id

\* the reader was told "not found" for the plan id that a saver, in the middle
\* of its transaction, has inserted with one of its two line items
C10_Witness ==
    \E r \in Readers, p \in Savers :
        /\ pc[r] = "done"
        /\ local[r].ret = NoRet
        /\ pc[p] = "insert_lines"
        /\ local[p].plan_id = local[r].plan_id
        /\ Cardinality({ x \in conn[p].planned_exercises : x.plan_id = local[p].plan_id }) = 1

\* C11: for any interleaving of two concurrent tool calls of one caller identity
\* that is not yet provisioned, neither call fails because of provisioning, and
\* afterwards one user row exists for the identity, with current_cycle_number 1.
C11_ProvisioningIdempotent ==
    \A p, q \in Callers :
        ( /\ p # q
          /\ pc[p] = "done" /\ pc[q] = "done"
          /\ local[p].user_id = local[q].user_id ) =>
            /\ local[p].exc = NoExc
            /\ local[q].exc = NoExc
            /\ local[p].user_id \in DOMAIN users
            /\ users[local[p].user_id].current_cycle_number = 1

C14_DifficultyRange ==
    [][ /\ \A i \in 1..Len(exercises') :
              1 <= exercises'[i].difficulty_level /\ exercises'[i].difficulty_level <= 5
        /\ last'.op = "create_exercise" =>
              LET d == last'.args.difficulty_level IN
              /\ (d < 1 \/ d > 5) =>
                    /\ last'.exc = ValueError
                    /\ Contains(last'.msg, "between 1 and 5")
                    /\ exercises' = exercises
              /\ ( /\ 1 <= d /\ d <= 5
                   /\ \A i \in 1..Len(exercises) : exercises[i].name # last'.args.name ) =>
                    /\ last'.exc = NoExc
                    /\ last'.ret[1].difficulty_level = d
                    /\ Len(exercises') = Len(exercises) + 1
                    /\ exercises'[Len(exercises')].difficulty_level = d ]_vars

\* level 6 was just refused, and exercises of level 1 and of level 5 are stored
C14_Witness ==
    /\ last.op = "create_exercise"
    /\ last.args.difficulty_level = 6
    /\ last.exc = ValueError
    /\ \E i, j \in 1..Len(exercises) :
          exercises[i].difficulty_level = 1 /\ exercises[j].difficulty_level = 5

\* x is one of the strings of list
Member(x, list) == \E i \in 1..Len(list) : list[i] = x

\* the ids of the stored exercises that satisfy every filter that is given
SatisfyingIds(db, f) ==
    { i \in 1..Len(db.exercises) :
        /\ f.muscle_group # <<>> =>
              Member(f.muscle_group, deserialize_json_field(db.exercises[i].muscle_groups))
        /\ f.equipment # <<>> =>
              Member(f.equipment, deserialize_json_field(db.exercises[i].equipment_needed))
        /\ f.difficulty # 0 => db.exercises[i].difficulty_level = f.difficulty }

\* C18: list_exercises returns exactly the stored exercises that satisfy all of
\* the given filters at once (muscle_group is a member of muscle_groups,
\* equipment a member of equipment_needed, difficulty_level equals difficulty),
\* all exercises when no filter is given, sorted by name ascending.
C18_ListExercisesFilters ==
    [][ last'.op = "list_exercises" =>
          LET result == last'.ret[1].exercises IN
          /\ last'.exc = NoExc
          /\ { result[k].exercise_id : k \in 1..Len(result) } = SatisfyingIds(CurrentDB, last'.args)
          /\ Len(result) = Cardinality(SatisfyingIds(CurrentDB, last'.args))
          /\ \A k \in 1..Len(result) : result[k] = ExerciseOfRow(CurrentDB, result[k].exercise_id)
          /\ \A j, k \in 1..Len(result) : j < k => TextLess(result[j].name, result[k].name) ]_vars

\* the save_workout_plan call recorded in call is one that repeats nothing and
\* misses nothing: its user exists and has fewer than 3 active plans, the plan
\* name is unused in the user's current cycle, the exercise ids exist
SaveIsValid(db, call) ==
    /\ call.user_id \in DOMAIN db.users
    /\ get_active_plan_count(db, call.user_id) < 3
    /\ NameUnused(db, call.user_id, call.name)
    /\ ExercisesExist(db, call.exercises_list)

\* C13: no two workout plans, active or inactive, share (user_id, plan_name,
\* cycle_number): save_workout_plan repeating a name the user already used in
\* the current cycle fails, also after the earlier plan was deactivated; the
\* same name succeeds for another user, and for the same user once
\* update_user_rotation has advanced the cycle.
C13_UniquePlanPerCycle ==
    [][ /\ Cardinality({ <<workout_plans'[i].user_id, workout_plans'[i].plan_name,
                               workout_plans'[i].cycle_number>> : i \in 1..Len(workout_plans') })
              = Len(workout_plans')
        /\ last'.op = "save_workout_plan" =>
              /\ ~ NameUnused(CurrentDB, last'.user_id, last'.name) =>
                    /\ last'.exc # NoExc
                    /\ workout_plans' = workout_plans
              /\ SaveIsValid(CurrentDB, last') =>
                    /\ last'.exc = NoExc
                    /\ workout_plans'[Len(workout_plans')] =
                          PlanRow(last'.user_id, last'.name,
                                  users[last'.user_id].current_cycle_number,
                                  last'.args.created_date) ]_vars

\* a repeated name was refused although the plan that carries it is inactive
\* and the user has fewer than 3 active plans; the user saved the same name in
\* cycle 1 and in cycle 2, and another user holds a plan of that name too
C13_Witness ==
    /\ last.op = "save_workout_plan"
    /\ last.exc # NoExc
    /\ Contains(last.msg, "UNIQUE constraint failed")
    /\ \E i, j, k \in 1..Len(workout_plans) :
          /\ workout_plans[i].user_id = last.user_id
          /\ workout_plans[i].plan_name = last.name
          /\ workout_plans[i].cycle_number = users[last.user_id].current_cycle_number
          /\ ~ workout_plans[i].is_active
          /\ workout_plans[j].user_id = last.user_id
          /\ workout_plans[j].plan_name = last.name
          /\ workout_plans[j].cycle_number < workout_plans[i].cycle_number
          /\ workout_plans[k].user_id # last.user_id
          /\ workout_plans[k].plan_name = last.name

\* C15: update_user_rotation on an existing user increases that user's
\* current_cycle_number by exactly 1 and sets last_rotation_date, leaving every
\* other user and every plan unchanged; current_cycle_number starts at 1, is
\* always >= 1 and never decreases.
C15_RotationIncrements ==
    [][ /\ (last'.op = "update_user_rotation" /\ last'.user_id \in DOMAIN users) =>
              LET u == last'.user_id IN
              /\ last'.exc = NoExc
              /\ DOMAIN users' = DOMAIN users
              /\ users'[u].current_cycle_number = users[u].current_cycle_number + 1
              /\ users'[u].last_rotation_date \in Times
              /\ users'[u].name = users[u].name
              /\ users'[u].rotation_weeks = users[u].rotation_weeks
              /\ \A v \in DOMAIN users \ {u} : users'[v] = users[v]
              /\ workout_plans' = workout_plans
              /\ planned_exercises' = planned_exercises
              /\ exercises' = exercises
        /\ \A u \in DOMAIN users :
              /\ u \in DOMAIN users'
              /\ users'[u].current_cycle_number >= users[u].current_cycle_number
        /\ \A u \in DOMAIN users' :
              /\ users'[u].current_cycle_number >= 1
              /\ u \notin DOMAIN users => users'[u].current_cycle_number = 1 ]_vars

\* the cycle of a user who owns an active plan was just advanced to 2, while a
\* second user, who owns a plan too, is still in cycle 1
C15_Witness ==
    /\ last.op = "update_user_rotation"
    /\ last.user_id \in DOMAIN users
    /\ users[last.user_id].current_cycle_number = 2
    /\ get_active_plan_count(CurrentDB, last.user_id) > 0
    /\ \E v \in DOMAIN users \ {last.user_id} :
          /\ users[v].current_cycle_number = 1
          /\ get_active_plan_count(CurrentDB, v) > 0

\* C16: update_user_rotation for a user_id that does not exist surfaces a
\* not-found condition (an error outcome) instead of succeeding silently, and
\* changes no row.
C16_RotationOfAbsentUser ==
    [][ (last'.op = "update_user_rotation" /\ last'.user_id \notin DOMAIN users) =>
          /\ last'.exc # NoExc
          /\ users' = users
          /\ workout_plans' = workout_plans ]_vars

\* C17: deactivate_user_plans(u) sets is_active to false on every active plan
\* of u, so get_active_plan_count(u) is 0 right after it and up to 3 new plans
\* can then be saved; it deletes no plan or line item and leaves the plans of
\* every other user, and u's cycle number and rotation date, unchanged.
C17_DeactivateFrame ==
    [][ /\ last'.op = "deactivate_user_plans" =>
              LET u == last'.user_id IN
              /\ last'.exc = NoExc
              /\ Len(workout_plans') = Len(workout_plans)
              /\ \A i \in 1..Len(workout_plans) :
                    workout_plans'[i] =
                       IF workout_plans[i].user_id = u
                       THEN [workout_plans[i] EXCEPT !.is_active = FALSE]
                       ELSE workout_plans[i]
              /\ get_active_plan_count(DB(users', exercises', workout_plans', planned_exercises'),
                                       u) = 0
              /\ planned_exercises' = planned_exercises
              /\ users' = users
              /\ exercises' = exercises
        /\ ( /\ last'.op = "save_workout_plan"
             /\ SaveIsValid(CurrentDB, last')
             /\ \E i \in 1..Len(workout_plans) :
                   workout_plans[i].user_id = last'.user_id /\ ~ workout_plans[i].is_active ) =>
               /\ last'.exc = NoExc
               /\ get_active_plan_count(DB(users', exercises', workout_plans', planned_exercises'),
                                        last'.user_id)
                    = get_active_plan_count(CurrentDB, last'.user_id) + 1 ]_vars

\* the plans of a user who had two active ones were just deactivated, while
\* another user keeps an active plan
C17_Witness ==
    /\ last.op = "deactivate_user_plans"
    /\ Cardinality({ i \in 1..Len(workout_plans) :
                       workout_plans[i].user_id = last.user_id }) >= 2
    /\ get_active_plan_count(CurrentDB, last.user_id) = 0
    /\ \E v \in UserIds \ {last.user_id} : get_active_plan_count(CurrentDB, v) > 0
    /\ planned_exercises # {}

OwnPlan(db, user_id, plan_id) ==
    plan_id \in 1..Len(db.workout_plans) /\ db.workout_plans[plan_id].user_id = user_id

\* C19: load_workout_plan(u, plan_id) returns a plan and its line items only
\* when that plan belongs to u; for a plan_id owned by another user or not
\* existing it returns the not-found result (None, rendered by the tool as
\* success = false) without raising and without revealing any field of the plan.
C19_LoadOnlyOwnPlan ==
    [][ (last'.op = "load_workout_plan" /\ last'.args.given) =>
          /\ last'.exc = NoExc
          /\ IF OwnPlan(CurrentDB, last'.user_id, last'.plan_id)
             THEN /\ last'.ret = <<[plan |-> WorkoutPlanOfRow(CurrentDB, last'.plan_id),
                                    exercises |-> LoadPlanLines(CurrentDB, last'.plan_id)]>>
                  /\ last'.args.response.success
             ELSE /\ last'.ret = NoRet
                  /\ ~ last'.args.response.success ]_vars

\* C20: load_workout_plan(u) without plan_id returns exactly the plans of u with
\* is_active = true (no inactive plan, no plan of another user), ordered by
\* creation date descending; its length equals get_active_plan_count(u), and it
\* is empty right after deactivate_user_plans(u).
C20_LoadActivePlans ==
    [][ /\ (last'.op = "load_workout_plan" /\ ~ last'.args.given) =>
              LET plans == last'.ret[1].plans IN
              /\ last'.exc = NoExc
              /\ { plans[k].plan_id : k \in 1..Len(plans) } =
                    ActivePlanIds(workout_plans, last'.user_id)
              /\ Len(plans) = get_active_plan_count(CurrentDB, last'.user_id)
              /\ \A k \in 1..Len(plans) :
                    /\ plans[k] = WorkoutPlanOfRow(CurrentDB, plans[k].plan_id)
                    /\ plans[k].is_active
                    /\ plans[k].user_id = last'.user_id
              /\ \A j, k \in 1..Len(plans) :
                    j < k => plans[j].created_date >= plans[k].created_date
        /\ last'.op = "deactivate_user_plans" =>
              \A result \in LoadResults(DB(users', exercises', workout_plans', planned_exercises'),
                                        last'.user_id, PlanIdOmitted) :
                  result[1].plans = <<>> ]_vars

\* two active plans were returned, the later one first although it has the
\* lower plan_id, while the user has an inactive plan and another user an active one
C20_Witness ==
    /\ last.op = "load_workout_plan"
    /\ ~ last.args.given
    /\ Len(last.ret[1].plans) = 2
    /\ last.ret[1].plans[1].plan_id < last.ret[1].plans[2].plan_id
    /\ last.ret[1].plans[1].created_date > last.ret[1].plans[2].created_date
    /\ \E i, j \in 1..Len(workout_plans) :
          /\ workout_plans[i].user_id = last.user_id /\ ~ workout_plans[i].is_active
          /\ workout_plans[j].user_id # last.user_id /\ workout_plans[j].is_active

\* the view load_workout_plan has to return for plan plan_id of user_id, saved
\* from exercises_list: the plan's metadata and one line per element of the
\* list, in the order given
SavedView(db, user_id, plan_id, exercises_list) ==
    [plan      |-> [plan_id |-> plan_id] @@ db.workout_plans[plan_id],
     exercises |-> [k \in 1..Len(exercises_list) |->
                      [plan_id       |-> plan_id,
                       order_in_plan |-> k,
                       exercise_id   |-> exercises_list[k].exercise_id,
                       sets          |-> exercises_list[k].sets,
                       reps          |-> exercises_list[k].reps,
                       name          |-> db.exercises[exercises_list[k].exercise_id].name]]]

\* C21: after save_workout_plan(u, name, lines) succeeds with n line items,
\* load_workout_plan(u, plan_id) returns the plan's metadata and exactly n line
\* items in the order given, order_in_plan 1..n, each with the saved
\* exercise_id, sets and reps and the name of its exercise; the line items a
\* load returns for a plan stay the same under every later call.
C21_SaveLoadRoundTrip ==
    [][ /\ (last'.op = "save_workout_plan" /\ last'.exc = NoExc) =>
              LET after == DB(users', exercises', workout_plans', planned_exercises')
                  id    == last'.ret[1].plan_id
              IN  /\ id = Len(workout_plans')
                  /\ workout_plans'[id].user_id = last'.user_id
                  /\ workout_plans'[id].plan_name = last'.name
                  /\ load_workout_plan(after, last'.user_id, id) =
                        <<SavedView(after, last'.user_id, id, last'.exercises_list)>>
        /\ \A id \in 1..Len(workout_plans) :
              LoadPlanLines(DB(users', exercises', workout_plans', planned_exercises'), id)
                = LoadPlanLines(CurrentDB, id)
        /\ (last'.op = "load_workout_plan" /\ last'.ret # NoRet) =>
              /\ last'.ret[1].plan = [plan_id |-> last'.plan_id] @@ workout_plans[last'.plan_id]
              /\ last'.ret[1].exercises = LoadPlanLines(CurrentDB, last'.plan_id)
              /\ \A k \in 1..Len(last'.ret[1].exercises) :
                    last'.ret[1].exercises[k].order_in_plan = k ]_vars

\* a plan of three line items that differ in exercise, sets and reps was
\* loaded after its owner's plans were deactivated and other plans were saved
C21_Witness ==
    /\ last.op = "load_workout_plan"
    /\ last.ret # NoRet
    /\ Len(last.ret[1].exercises) = 3
    /\ last.ret[1].exercises[2].name = "Squats"
    /\ last.ret[1].exercises[3].reps = 5
    /\ ~ last.ret[1].plan.is_active
    /\ Len(workout_plans) = 3
    /\ last.plan_id = 1

----------------------------------------------------------------------------
(* Personal records (SpecRecords).                                         *)

SavesRecord(call) ==
    \/ call.op = "save_personal_record"
    \/ call.op = "call_tool" /\ call.name = "save_personal_record"

\* C22: a save_personal_record whose record_type is not exactly one of weight,
\* reps, time, distance ('Weight' included) fails with the ValueError "Invalid
\* record type", which the dispatch layer answers with code 400, and stores
\* nothing; every stored record has its record_type in the enumeration.
C22_InvalidRecordTypeRejected ==
    [][ /\ (SavesRecord(last') /\ last'.args.arguments.record_type \notin valid_types)
            => /\ personal_records' = personal_records
               /\ last'.exc = ValueError
               /\ Contains(last'.msg, "Invalid record type")
               /\ last'.op = "call_tool" => last'.ret[1].code = 400
        /\ \A i \in 1..Len(personal_records') :
              personal_records'[i].record_type \in valid_types ]_vars

\* the instant a datetime denotes, in hours; two datetimes compare when both
\* are aware or both are naive
Instant(date) == date.day * 24 + date.hour - date.offset

Comparable(d, e) == d.aware = e.aware

\* C23: no operation overwrites or removes a stored record, and a
\* load_personal_records(u, exercise_name?, record_type?) that returns gives
\* exactly the records of u that match every filter passed, each once, latest
\* date_achieved first.
C23_RecordsAppendOnlyLoadOrdered ==
    [][ /\ Len(personal_records') >= Len(personal_records)
        /\ \A i \in 1..Len(personal_records) : personal_records'[i] = personal_records[i]
        /\ (last'.op = "load_personal_records" /\ last'.exc = NoExc)
            => LET list   == last'.ret[1].records
                   wanted == { i \in 1..Len(personal_records) :
                                 /\ personal_records[i].user_id = last'.user_id
                                 /\ Truthy(last'.args.exercise_name) =>
                                       personal_records[i].exercise_name
                                         = last'.args.exercise_name
                                 /\ last'.args.record_type # <<>> =>
                                       personal_records[i].record_type
                                         = last'.args.record_type }
               IN  /\ { list[k].record_id : k \in 1..Len(list) } = wanted
                   /\ Len(list) = Cardinality(wanted)
                   /\ \A k \in 1..Len(list) :
                         /\ list[k].user_id = last'.user_id
                         /\ list[k].value = personal_records[list[k].record_id].value
                   /\ \A j, k \in 1..Len(list) :
                         (j < k /\ Comparable(list[j].date_achieved, list[k].date_achieved))
                           => Instant(list[j].date_achieved) >= Instant(list[k].date_achieved)
      ]_vars

----------------------------------------------------------------------------
(* The responses of the dispatch layer.                                    *)

\* C25: a plan creation rejected because the caller already has
\* MaxActivePlans active plans is answered by the save_workout_plan tool with
\* code 400 and a message saying so: the response of a tool call made at the
\* cap, and the response handle_database_error builds from what
\* Database.save_workout_plan raises at the cap.
C25_CapRejectionIs400 ==
    [][ /\ ( /\ last'.op = "tool_save_workout_plan"
              /\ ToolArgumentsValid(CurrentDB, last')
              /\ get_active_plan_count(CurrentDB, last'.user_id) >= MaxActivePlans
              /\ ~ Succeeded(last'.ret[1]) )
            => /\ "code" \in DOMAIN last'.ret[1]
               /\ last'.ret[1].code = 400
               /\ Contains(last'.ret[1].message, CapMsg[1])
        /\ ( /\ last'.op = "save_workout_plan"
              /\ last'.user_id \in DOMAIN users
              /\ get_active_plan_count(CurrentDB, last'.user_id) >= MaxActivePlans
              /\ last'.exc # NoExc )
            => /\ handle_database_error(last'.exc, last'.msg).code = 400
               /\ Contains(handle_database_error(last'.exc, last'.msg).message, CapMsg[1])
      ]_vars

IsToolCall(call) == call.op = "call_tool"

\* the required arguments of the tools (inputSchema "required")
RequiredArguments(name) ==
    IF name = "create_exercise"
    THEN {"name", "description", "muscle_groups", "equipment_needed", "difficulty_level",
          "instructions"}
    ELSE IF name = "save_workout_plan" THEN {"plan_name", "exercises_list"}
    ELSE IF name = "save_personal_record" THEN {"exercise_name", "record_type", "value", "unit"}
    ELSE IF name = "generate_workout_guidance" THEN {"user_id"}
    ELSE {}

OmitsRequired(call) ==
    ~ (RequiredArguments(call.name) \subseteq DOMAIN call.args.arguments)

CrossUser(call) ==
    /\ call.name = "generate_workout_guidance"
    /\ "user_id" \in DOMAIN call.args.arguments
    /\ call.args.arguments.user_id # call.user_id

\* an error object: error kind, message and a code of the three classes
ErrorObject(response) ==
    /\ {"error", "message", "code"} \subseteq DOMAIN response
    /\ response.code \in {400, 403, 500}

\* C24: every tool call is answered in the uniform envelope: an object with
\* success = true, or, on every failure (unknown tool name and cross-user
\* request included), an error object with error kind, message and code, the
\* code 400 for a validation error, 403 for an access error, 500 otherwise.
C24_UniformEnvelope ==
    [][ IsToolCall(last') =>
          /\ Succeeded(last'.ret[1]) \/ ErrorObject(last'.ret[1])
          /\ last'.name \notin ToolNames => ErrorObject(last'.ret[1])
          /\ CrossUser(last') => ErrorObject(last'.ret[1]) /\ last'.ret[1].code = 403
          /\ last'.exc = ValueError => ErrorObject(last'.ret[1]) /\ last'.ret[1].code = 400
          /\ last'.exc = DatabaseError => ErrorObject(last'.ret[1]) /\ last'.ret[1].code = 500
      ]_vars

\* C26: generate_workout_guidance with a user_id other than the caller's is
\* answered with an error object of code 403 that holds no guidance, and no
\* table changes.
C26_CrossUserGuidanceIs403 ==
    [][ (IsToolCall(last') /\ CrossUser(last')) =>
          /\ ErrorObject(last'.ret[1])
          /\ last'.ret[1].code = 403
          /\ "guidance" \notin DOMAIN last'.ret[1]
          /\ UNCHANGED <<tables, personal_records>> ]_vars

\* C27: a tool call that omits a required argument is answered with an
\* error object of code 400, and no exercise, plan, line item or record is
\* stored.
C27_MissingArgumentIs400 ==
    [][ (IsToolCall(last') /\ last'.name \in ToolNames /\ OmitsRequired(last')) =>
          /\ ErrorObject(last'.ret[1])
          /\ last'.ret[1].code = 400
          /\ UNCHANGED <<exercises, workout_plans, planned_exercises, personal_records>>
      ]_vars

----------------------------------------------------------------------------
(* Rotation and saves that interleave (SpecRot).                           *)

\* C28: when save_workout_plan inserts the plan row, the cycle_number it
\* stores is the owner's current_cycle_number in the committed state of that
\* moment, whatever update_user_rotation did since the user was read.
C28_CycleNeverStale ==
    [][ \A p \in RotSavers :
          (pc[p] = "insert_plan" /\ pc'[p] = "insert_lines")
            => conn'[p].workout_plans[local'[p].plan_id].cycle_number
                 = users[local'[p].user_id].current_cycle_number ]_vars

\* C29: once the rotation and every save that was started have completed,
\* every active plan of u1 carries u1's current_cycle_number.
C29_ActivePlansOfCurrentCycle ==
    ( /\ pc[Rotator] = "done"
      /\ \A p \in RotSavers : pc[p] \in {"idle", "done"} )
    => \A i \in ActivePlanIds(workout_plans, "u1") :
          workout_plans[i].cycle_number = users["u1"].current_cycle_number

----------------------------------------------------------------------------
(* The life of a plan.                                                     *)

\* C30: no step deletes a plan or changes what it holds, a plan is active
\* when it is created, is_active only ever goes from true to false, and the
\* plan ids only grow.
C30_PlansOnlyDeactivated ==
    [][ /\ Len(workout_plans') >= Len(workout_plans)
        /\ \A i \in 1..Len(workout_plans) :
              /\ workout_plans'[i].is_active => workout_plans[i].is_active
              /\ [workout_plans'[i] EXCEPT !.is_active = TRUE]
                   = [workout_plans[i] EXCEPT !.is_active = TRUE]
        /\ \A i \in (Len(workout_plans) + 1)..Len(workout_plans') :
              workout_plans'[i].is_active ]_vars

\* a plan was deactivated and a later plan was created, which is active
C30_Witness ==
    \E i, j \in 1..Len(workout_plans) :
        /\ i < j
        /\ workout_plans[i].user_id = workout_plans[j].user_id
        /\ ~ workout_plans[i].is_active
        /\ workout_plans[j].is_active
====
